---- MODULE Spec2Model ----
(***************************************************************************)
(* Model of the gdrive-tracker change-detection engine (DiffTracker), of   *)
(* the drive_update / tracked_folders request handlers that drive it, and  *)
(* of the page (app/page.tsx) that sends the checks.                       *)
(*                                                                         *)
(* Names are sequences of one-character strings.  An optional JavaScript   *)
(* value (null / undefined / a missing field) is the empty sequence Null,  *)
(* a present value v is the one-element sequence Some(v).                  *)
(***************************************************************************)
EXTENDS Integers, Sequences, FiniteSets, TLC

VARIABLES
    currentContents,   \* detectChanges argument: the freshly fetched snapshot
    lastContents,      \* detectChanges argument: the stored snapshot, or Null
    changes,           \* the list returned by detectChanges
    remoteCalls,       \* file ids for which revisions.list was requested
    revisionReplies,   \* what revisions.list answered, by file id
    pc,                \* position of the detection call
    simName1,          \* calculateNameSimilarity argument name1
    simName2,          \* calculateNameSimilarity argument name2
    simResult,         \* the value returned by calculateNameSimilarity, or Null
    simPc,             \* position of the similarity call
    travTree,          \* getFolderContents: the remote tree under the folder
    travFailAt,        \* which files.list request fails (0: none)
    travFiles,         \* the list returned by getFolderContents
    travCalls,         \* the folders files.list was asked about, in order
    travPc,            \* position of the traversal call
    drive,             \* remote Drive: the files listed in each folder
    trackedFolders,    \* table tracked_folders: folder id -> row, or Null
    folderChanges,     \* table folder_changes: the rows in insertion order
    nextId,            \* next value of the sequence behind tracked_folders.id
    now,               \* the database clock, in hours
    req,               \* the requests being handled: locals and position
    pages              \* the open pages of the UI (app/page.tsx): their state

detectVars ==
    <<currentContents, lastContents, changes, remoteCalls, revisionReplies, pc>>
simVars == <<simName1, simName2, simResult, simPc>>
sysVars == <<drive, trackedFolders, folderChanges, nextId, now, req, pages>>
travVars == <<travTree, travFailAt, travFiles, travCalls, travPc>>
vars == <<detectVars, simVars, travVars, sysVars>>

----------------------------------------------------------------------------
(* Optional values *)

Null == <<>>
Some(v) == <<v>>
IsNull(o) == o = <<>>
Val(o) == o[1]

Max(a, b) == IF a >= b THEN a ELSE b

----------------------------------------------------------------------------
(* Bounds of the explored inputs *)

MaxId == 3        \* item ids are 1..MaxId
MaxCur == 2       \* longest current snapshot
MaxPrev == 2      \* longest previous snapshot
MaxFolders == 1   \* folders that requests name
MaxRequests == 1  \* requests handled at the same time
MaxDriveId == 2   \* ids of the files of the remote Drive are 1..MaxDriveId
MaxDriveItems == 1 \* most files in one remote folder
MaxClock == 1     \* the clock runs from 0 to MaxClock
MaxLedger == 1    \* no check starts once folder_changes holds this many rows
MaxTreeItems == 3 \* most files and folders in a traversed remote tree
MaxClients == 1   \* pages that have the UI open
MaxConcRequests == 2 \* requests handled at the same time, runs under concurrency
MaxConcLedger == 2   \* as MaxLedger, runs under concurrency
MaxUiRequests == 2   \* requests handled at the same time, runs with the UI
MaxRowId == 2        \* no page deletes a folder once tracked_folders.id passed this

----------------------------------------------------------------------------
(* DiffTracker.calculateNameSimilarity *)

\* The upper-case letters that occur in the names of this model
UpperToLower ==
    [A |-> "a", B |-> "b", C |-> "c", D |-> "d", E |-> "e", F |-> "f",
     R |-> "r", X |-> "x"]

\* String.prototype.toLowerCase, character by character
toLowerCase(s) ==
    [k \in 1..Len(s) |->
        IF s[k] \in DOMAIN UpperToLower THEN UpperToLower[s[k]] ELSE s[k]]

\* Variant: the extension is kept
StripExtension_Keep(s) == s

\* name.replace(/\.[^/.]+$/, ""): drop the last "." and what follows it, when
\* at least one character follows and none of them is "/".
StripExtension(s) ==
    LET dots == {k \in 1..Len(s) : s[k] = "."}
    IN  IF dots = {} THEN s
        ELSE LET d == CHOOSE k \in dots : \A j \in dots : j <= k
             IN  IF d < Len(s) /\ \A j \in (d+1)..Len(s) : s[j] # "/"
                 THEN SubSeq(s, 1, d - 1)
                 ELSE s

\* One row of the longest-common-subsequence table: prevRow[k+1] and acc[k+1]
\* hold column k.
RECURSIVE LcsRow(_, _, _, _, _)
LcsRow(prevRow, ch, b, j, acc) ==
    IF j > Len(b) THEN acc
    ELSE LET v == IF ch = b[j] THEN prevRow[j] + 1
                  ELSE Max(prevRow[j + 1], acc[j])
         IN  LcsRow(prevRow, ch, b, j + 1, Append(acc, v))

\* The last row of the table; each row is computed before the next one starts
RECURSIVE LcsRows(_, _, _, _)
LcsRows(a, b, i, row) ==
    IF i > Len(a) THEN row
    ELSE CHOOSE last \in
             {LcsRows(a, b, i + 1, next) :
                 next \in {LcsRow(row, a[i], b, 1, <<0>>)}} : TRUE

\* diff.diffChars(a, b) is a shortest edit script; the total length of its
\* parts that are neither added nor removed is the length of a longest common
\* subsequence of a and b.
UnchangedLength(a, b) ==
    LcsRows(a, b, 1, [k \in 1..(Len(b) + 1) |-> 0])[Len(b) + 1]

\* The quotient num / den, kept as a fraction; den = 0 is JavaScript's 0/0 = NaN.
calculateNameSimilarity(name1, name2) ==
    LET base1 == StripExtension(name1)
        base2 == StripExtension(name2)
    IN  [num |-> UnchangedLength(toLowerCase(base1), toLowerCase(base2)),
         den |-> Max(Len(base1), Len(base2))]

\* threshold = 0.8 as the fraction ThresholdNum / ThresholdDen
ThresholdNum == 8
ThresholdDen == 10

\* Variant: the threshold itself is accepted (>= instead of >)
ExceedsThreshold_Inclusive(similarity) ==
    /\ similarity.den # 0
    /\ similarity.num * ThresholdDen >= ThresholdNum * similarity.den

\* similarity > threshold; every comparison with NaN is false
ExceedsThreshold(similarity) ==
    /\ similarity.den # 0
    /\ similarity.num * ThresholdDen > ThresholdNum * similarity.den

----------------------------------------------------------------------------
(* DiffTracker.detectChanges and its helpers *)

DocumentMimeType == "application/vnd.google-apps.document"
TextMimeType == "text/plain"

\* mimeType?.includes("document")
IncludesDocument(mimeType) == mimeType \in {DocumentMimeType}

\* parents?.[0]
FirstParent(item) == IF item.parents = <<>> THEN Null ELSE Some(item.parents[1])

\* size || 0
SizeOrZero(item) == IF IsNull(item.size) THEN 0 ELSE Val(item.size)

\* new Map(contents.map((item) => [item.id, item])): keys in order of first
\* occurrence, each bound to the last item that carries it.
RECURSIVE MapKeys(_, _, _)
MapKeys(contents, k, acc) ==
    IF k > Len(contents) THEN acc
    ELSE IF \E j \in 1..Len(acc) : acc[j] = contents[k].id
         THEN MapKeys(contents, k + 1, acc)
         ELSE MapKeys(contents, k + 1, Append(acc, contents[k].id))

MapHas(contents, id) == \E k \in 1..Len(contents) : contents[k].id = id

MapGet(contents, id) ==
    LET ks == {k \in 1..Len(contents) : contents[k].id = id}
    IN  contents[CHOOSE k \in ks : \A j \in ks : j <= k]

RECURSIVE findPossibleRenameFrom(_, _, _)
findPossibleRenameFrom(current, contents, k) ==
    IF k > Len(contents) THEN Null
    ELSE LET oldFile == contents[k]
             similarity == calculateNameSimilarity(current.name, oldFile.name)
         IN  IF /\ current.mimeType = oldFile.mimeType
                /\ current.size = oldFile.size
                /\ ExceedsThreshold(similarity)
             THEN Some([name |-> oldFile.name, similarity |-> similarity])
             ELSE findPossibleRenameFrom(current, contents, k + 1)

\* Variant: the scan runs from the end of lastContents, so the last candidate wins
RECURSIVE findPossibleRenameDownFrom(_, _, _)
findPossibleRenameDownFrom(current, contents, k) ==
    IF k < 1 THEN Null
    ELSE LET oldFile == contents[k]
             similarity == calculateNameSimilarity(current.name, oldFile.name)
         IN  IF /\ current.mimeType = oldFile.mimeType
                /\ current.size = oldFile.size
                /\ ExceedsThreshold(similarity)
             THEN Some([name |-> oldFile.name, similarity |-> similarity])
             ELSE findPossibleRenameDownFrom(current, contents, k - 1)

findPossibleRename_LastMatch(current, contents) ==
    findPossibleRenameDownFrom(current, contents, Len(contents))

findPossibleRename(current, contents) ==
    findPossibleRenameFrom(current, contents, 1)

\* Variant: the renamed entry is matched on the new name instead of oldName
wasRenamed_ByNewName(item, chgs) ==
    \E k \in 1..Len(chgs) :
        chgs[k].type = "renamed" /\ chgs[k].item.name = item.name

wasRenamed(item, chgs) ==
    \E k \in 1..Len(chgs) :
        chgs[k].type = "renamed" /\ chgs[k].oldName = item.name

\* revisions is the answer of driveService.revisions.list: Null when the call
\* fails, Some(list) otherwise.  A failure is caught and turned into null.
getRevisionDetails(revisions) ==
    IF IsNull(revisions) THEN Null
    ELSE LET revs == Val(revisions)
         IN  Some([lastRevision |->
                       IF revs = <<>> THEN Null ELSE Some(revs[Len(revs)]),
                   revisionCount |-> Len(revs)])

\* Variant: the size delta is taken as previous - new
getModificationDetails_DeltaReversed(current, previous, revisions) ==
    LET details ==
            [previousModifiedTime |-> previous.modifiedTime,
             newModifiedTime |-> current.modifiedTime,
             previousSize |-> SizeOrZero(previous),
             newSize |-> SizeOrZero(current),
             sizeDelta |-> SizeOrZero(previous) - SizeOrZero(current)]
    IN  IF IncludesDocument(current.mimeType)
        THEN details @@ [revisionInfo |-> getRevisionDetails(revisions)]
        ELSE details

\* Variant: when revisions.list fails for a document the sizes are not filled
getModificationDetails_SizesNeedRevisions(current, previous, revisions) ==
    LET known == ~IncludesDocument(current.mimeType) \/ ~IsNull(revisions)
        details ==
            [previousModifiedTime |-> previous.modifiedTime,
             newModifiedTime |-> current.modifiedTime,
             previousSize |-> IF known THEN SizeOrZero(previous) ELSE 0,
             newSize |-> IF known THEN SizeOrZero(current) ELSE 0,
             sizeDelta |-> IF known
                           THEN SizeOrZero(current) - SizeOrZero(previous)
                           ELSE 0]
    IN  IF IncludesDocument(current.mimeType)
        THEN details @@ [revisionInfo |-> getRevisionDetails(revisions)]
        ELSE details

getModificationDetails(current, previous, revisions) ==
    LET details ==
            [previousModifiedTime |-> previous.modifiedTime,
             newModifiedTime |-> current.modifiedTime,
             previousSize |-> SizeOrZero(previous),
             newSize |-> SizeOrZero(current),
             sizeDelta |-> SizeOrZero(current) - SizeOrZero(previous)]
    IN  IF IncludesDocument(current.mimeType)
        THEN details @@ [revisionInfo |-> getRevisionDetails(revisions)]
        ELSE details

\* Variant: every item found in both snapshots counts as modified
IsModified_Always(current, last) == TRUE

\* current.modifiedTime !== last.modifiedTime
IsModified(current, last) == current.modifiedTime # last.modifiedTime

\* Variant: current.parents !== last.parents compares two distinct arrays
IsMoved_ArrayIdentity(current, last) == TRUE

\* current.parents?.[0] !== last.parents?.[0]
IsMoved(current, last) == FirstParent(current) # FirstParent(last)

\* Variant: the parent is compared only when modifiedTime is unchanged
ChangesOfCurrent_MovedOnlyIfUnmodified(current, contents, revisions) ==
    IF ~MapHas(contents, current.id)
    THEN LET possibleRename == findPossibleRename(current, contents)
         IN  IF ~IsNull(possibleRename)
             THEN <<[type |-> "renamed", item |-> current,
                     oldName |-> Val(possibleRename).name,
                     similarity |-> Val(possibleRename).similarity]>>
             ELSE <<[type |-> "added", item |-> current]>>
    ELSE LET last == MapGet(contents, current.id)
         IN  IF IsModified(current, last)
             THEN <<[type |-> "modified", item |-> current,
                     modificationDetails |->
                         getModificationDetails(current, last,
                                                 revisions[current.id])]>>
             ELSE IF IsMoved(current, last)
                  THEN <<[type |-> "moved", item |-> current,
                          oldParentId |-> FirstParent(last),
                          newParentId |-> FirstParent(current)]>>
                  ELSE <<>>

\* The changes pushed by one iteration of the loop over currentMap;
\* revisions[id] is what revisions.list answers when asked about the file id
ChangesOfCurrent(current, contents, revisions) ==
    IF ~MapHas(contents, current.id)
    THEN LET possibleRename == findPossibleRename(current, contents)
         IN  IF ~IsNull(possibleRename)
             THEN <<[type |-> "renamed", item |-> current,
                     oldName |-> Val(possibleRename).name,
                     similarity |-> Val(possibleRename).similarity]>>
             ELSE <<[type |-> "added", item |-> current]>>
    ELSE LET last == MapGet(contents, current.id)
         IN  (IF IsModified(current, last)
              THEN <<[type |-> "modified", item |-> current,
                      modificationDetails |->
                          getModificationDetails(current, last,
                                                 revisions[current.id])]>>
              ELSE <<>>)
             \o
             (IF IsMoved(current, last)
              THEN <<[type |-> "moved", item |-> current,
                      oldParentId |-> FirstParent(last),
                      newParentId |-> FirstParent(current)]>>
              ELSE <<>>)

\* The revisions.list requests issued by one iteration of that loop
CallsOfCurrent(current, contents) ==
    IF /\ MapHas(contents, current.id)
       /\ IsModified(current, MapGet(contents, current.id))
       /\ IncludesDocument(current.mimeType)
    THEN <<current.id>>
    ELSE <<>>

RECURSIVE CurrentLoop(_, _, _, _, _)
CurrentLoop(cur, keys, k, contents, revisions) ==
    IF k > Len(keys) THEN <<>>
    ELSE ChangesOfCurrent(MapGet(cur, keys[k]), contents, revisions)
         \o CurrentLoop(cur, keys, k + 1, contents, revisions)

RECURSIVE CallsLoop(_, _, _, _)
CallsLoop(cur, keys, k, contents) ==
    IF k > Len(keys) THEN <<>>
    ELSE CallsOfCurrent(MapGet(cur, keys[k]), contents)
         \o CallsLoop(cur, keys, k + 1, contents)

\* Variant: a previous item counts as gone when its name is gone
RECURSIVE RemovedLoop_ByName(_, _, _, _, _)
RemovedLoop_ByName(cur, contents, keys, k, chgs) ==
    IF k > Len(keys) THEN chgs
    ELSE LET last == MapGet(contents, keys[k])
         IN  RemovedLoop_ByName(cur, contents, keys, k + 1,
                 IF /\ \A j \in 1..Len(cur) : cur[j].name # last.name
                    /\ ~wasRenamed(last, chgs)
                 THEN Append(chgs, [type |-> "removed", item |-> last])
                 ELSE chgs)

RECURSIVE RemovedLoop(_, _, _, _, _)
RemovedLoop(cur, contents, keys, k, chgs) ==
    IF k > Len(keys) THEN chgs
    ELSE LET last == MapGet(contents, keys[k])
         IN  RemovedLoop(cur, contents, keys, k + 1,
                 IF ~MapHas(cur, keys[k]) /\ ~wasRenamed(last, chgs)
                 THEN Append(chgs, [type |-> "removed", item |-> last])
                 ELSE chgs)

\* !lastContents: only null and undefined are falsy; an array, even an empty
\* one, is truthy.
IsFalsy(contentsOpt) == IsNull(contentsOpt)

\* Variant: the removed entries are pushed after the renamed ones but before
\* the other current-side entries
DetectAgainst_RemovedFirst(cur, contents, revisions) ==
    LET currentSide ==
            CurrentLoop(cur, MapKeys(cur, 1, <<>>), 1, contents, revisions)
        all == RemovedLoop(cur, contents, MapKeys(contents, 1, <<>>), 1,
                           currentSide)
    IN  [changes |->
             SubSeq(all, Len(currentSide) + 1, Len(all)) \o currentSide,
         calls |-> CallsLoop(cur, MapKeys(cur, 1, <<>>), 1, contents)]

\* The body of detectChanges after the guard on lastContents: the returned
\* list, and the revisions.list requests made on the way
DetectAgainst(cur, contents, revisions) ==
    LET currentSide ==
            CurrentLoop(cur, MapKeys(cur, 1, <<>>), 1, contents, revisions)
    IN  [changes |->
             RemovedLoop(cur, contents, MapKeys(contents, 1, <<>>), 1,
                         currentSide),
         calls |-> CallsLoop(cur, MapKeys(cur, 1, <<>>), 1, contents)]

\* Variant: a missing baseline is diffed as an empty one
detectChanges_NoBaselineGuard(cur, contentsOpt, revisions) ==
    DetectAgainst(cur, IF IsNull(contentsOpt) THEN <<>> ELSE Val(contentsOpt),
                  revisions)

detectChanges(cur, contentsOpt, revisions) ==
    IF IsFalsy(contentsOpt) THEN [changes |-> <<>>, calls |-> <<>>]
    ELSE DetectAgainst(cur, Val(contentsOpt), revisions)

----------------------------------------------------------------------------
(* Inputs of the detection runs *)

NameABCDEF == <<"a", "b", "c", "d", "e", "f">>
NameABCDE == <<"a", "b", "c", "d", "e">>
NameABCD == <<"a", "b", "c", "d">>
NameUpperExt == <<"A", "B", "C", "D", "E", "F", ".", "x">>

BaseProfile ==
    [name |-> NameABCDEF, mimeType |-> TextMimeType, modifiedTime |-> 1,
     size |-> Some(10), parents |-> <<"root">>]

\* The base item, its three renamings, and three items that keep its name: a
\* document with a later modifiedTime, a sizeless item in another folder, and
\* a sizeless item with a later modifiedTime
Profiles ==
    {BaseProfile}
    \cup {[BaseProfile EXCEPT !.name = n] :
              n \in {NameABCDE, NameABCD, NameUpperExt}}
    \cup {[BaseProfile EXCEPT !.mimeType = DocumentMimeType,
                              !.modifiedTime = 2],
          [BaseProfile EXCEPT !.size = Null, !.parents = <<"f1">>],
          [BaseProfile EXCEPT !.size = Null, !.modifiedTime = 2]}

WithId(p, i) == p @@ [id |-> i]

\* Sequences of at most n items whose ids are pairwise different
RECURSIVE SnapshotsOver(_, _)
SnapshotsOver(ids, n) ==
    IF n = 0 THEN {<<>>}
    ELSE LET shorter == SnapshotsOver(ids, n - 1)
         IN  shorter \cup
             {Append(s, WithId(p, i)) :
                 s \in {t \in shorter : Len(t) = n - 1},
                 p \in Profiles,
                 i \in ids}

DistinctIds(s) == \A j, k \in 1..Len(s) : j # k => s[j].id # s[k].id

CurrentSnapshots == {s \in SnapshotsOver(1..MaxId, MaxCur) : DistinctIds(s)}

\* Previous snapshots number their items 1, 2, ... in order
PreviousSnapshots ==
    {s \in SnapshotsOver(1..MaxPrev, MaxPrev) :
        \A k \in 1..Len(s) : s[k].id = k}

\* Answers of revisions.list: a failure, or a list of revisions
RevisionAnswers == {Null, Some(<<"rev1">>)}

ItemIds == 1..Max(MaxId, MaxDriveId)

\* Nothing was asked, nothing was answered
NoReplies == [i \in ItemIds |-> Null]

\* The file ids a call of detectChanges asks revisions.list about, in order
RevisionRequests(cur, contentsOpt) ==
    detectChanges(cur, contentsOpt, NoReplies).calls

\* One answer for every request of a call (no answer where nothing is asked)
RevisionMaps(calls) ==
    {f \in [ItemIds -> RevisionAnswers] :
        \A i \in ItemIds :
            (\A k \in 1..Len(calls) : calls[k] # i) => f[i] = Null}

----------------------------------------------------------------------------
(* Inputs of the similarity runs *)

ReportDocx == <<"R", "e", "p", "o", "r", "t", ".", "d", "o", "c", "x">>
ReportCopyDocx ==
    <<"R", "e", "p", "o", "r", "t", " ", "(", "1", ")", ".", "d", "o", "c", "x">>

SimNames ==
    {ReportDocx, ReportCopyDocx,
     NameABCDEF, NameABCDE, NameABCD, NameUpperExt,
     <<"a", ".", "t", "x", "t">>, <<"b", ".", "t", "x", "t">>,
     <<>>, <<".", "a">>, <<".", "b">>,
     <<"a", ".", "b", "/", "c">>, <<"a", ".">>, <<"a", ".", "b", ".", "c">>}

----------------------------------------------------------------------------
(* The database: tables tracked_folders and folder_changes (lib/db.js) *)

\* INTERVAL '1 hour', in ticks of the clock
OneHour == 1

\* parseInt(item.size) || 0, summed over the contents
RECURSIVE TotalSize(_, _)
TotalSize(contents, k) ==
    IF k > Len(contents) THEN 0
    ELSE SizeOrZero(contents[k]) + TotalSize(contents, k + 1)

\* Variant: the update on conflict leaves folder_contents as it was
addTrackedFolder_KeepContents(tracked, nid, folderId, contents, t) ==
    IF IsNull(tracked[folderId])
    THEN [tracked |->
              [tracked EXCEPT ![folderId] =
                  Some([id |-> nid,
                        folder_contents |-> Some(contents),
                        folder_size |-> TotalSize(contents, 1),
                        total_items |-> Len(contents),
                        last_checked |-> Some(t),
                        last_modified |-> Null,
                        is_active |-> TRUE])],
          nextId |-> nid + 1,
          id |-> nid]
    ELSE [tracked |->
              [tracked EXCEPT ![folderId] =
                  Some([Val(@) EXCEPT !.folder_size = TotalSize(contents, 1),
                                      !.total_items = Len(contents),
                                      !.last_checked = Some(t)])],
          nextId |-> nid,
          id |-> Val(tracked[folderId]).id]

\* INSERT INTO tracked_folders ... ON CONFLICT (google_folder_id) DO UPDATE:
\* the new table, the new sequence value and the id RETURNING gives.  The
\* contents survive JSON.stringify and the JSONB column unchanged: every field
\* is a string, a number or an array, and an absent size stays absent.
addTrackedFolder(tracked, nid, folderId, contents, t) ==
    IF IsNull(tracked[folderId])
    THEN [tracked |->
              [tracked EXCEPT ![folderId] =
                  Some([id |-> nid,
                        folder_contents |-> Some(contents),
                        folder_size |-> TotalSize(contents, 1),
                        total_items |-> Len(contents),
                        last_checked |-> Some(t),
                        last_modified |-> Null,
                        is_active |-> TRUE])],
          nextId |-> nid + 1,
          id |-> nid]
    ELSE [tracked |->
              [tracked EXCEPT ![folderId] =
                  Some([Val(@) EXCEPT !.folder_contents = Some(contents),
                                      !.folder_size = TotalSize(contents, 1),
                                      !.total_items = Len(contents),
                                      !.last_checked = Some(t)])],
          nextId |-> nid,
          id |-> Val(tracked[folderId]).id]

\* tracked_folder_id INTEGER REFERENCES tracked_folders(id): some row has the id
HasTrackedId(tracked, id) ==
    \E f \in DOMAIN tracked : ~IsNull(tracked[f]) /\ Val(tracked[f]).id = id

\* db.getFolderContents: result.rows[0]?.folder_contents || null
getFolderContents(tracked, folderId) ==
    IF IsNull(tracked[folderId]) THEN Null
    ELSE Val(tracked[folderId]).folder_contents

\* Variant: the rows of every folder are looked at
hasRecentChange_AnyFolder(rows, t, folderId, changeType, itemName, parentName) ==
    \E k \in 1..Len(rows) :
        /\ rows[k].change_type = changeType
        /\ rows[k].item_name = itemName
        /\ rows[k].parent_name = parentName
        /\ rows[k].created_at > t - OneHour

\* Variant: a row with the key counts as recent whatever its age
hasRecentChange_NoWindow(rows, t, folderId, changeType, itemName, parentName) ==
    \E k \in 1..Len(rows) :
        /\ rows[k].google_folder_id = folderId
        /\ rows[k].change_type = changeType
        /\ rows[k].item_name = itemName
        /\ rows[k].parent_name = parentName

\* db.hasRecentChange
hasRecentChange(rows, t, folderId, changeType, itemName, parentName) ==
    \E k \in 1..Len(rows) :
        /\ rows[k].google_folder_id = folderId
        /\ rows[k].change_type = changeType
        /\ rows[k].item_name = itemName
        /\ rows[k].parent_name = parentName
        /\ rows[k].created_at > t - OneHour

\* item.modificationDetails || null
ItemModificationDetails(item) ==
    IF "modificationDetails" \in DOMAIN item
    THEN Some(item.modificationDetails)
    ELSE Null

\* item.fullPath || ""
ItemFullPath(item) == IF "fullPath" \in DOMAIN item THEN item.fullPath ELSE <<>>

\* The row that db.saveChange inserts; additionalData keeps its default {}
ChangeRow(trackedFolderId, folderId, changeType, item, parentName, t) ==
    [tracked_folder_id |-> trackedFolderId,
     google_folder_id |-> folderId,
     change_type |-> changeType,
     item_name |-> item.name,
     parent_name |-> parentName,
     item_id |-> item.id,
     mime_type |-> item.mimeType,
     modified_time |-> item.modifiedTime,
     size |-> SizeOrZero(item),
     full_path |-> ItemFullPath(item),
     additional_data |-> <<>>,
     modification_details |-> ItemModificationDetails(item),
     created_at |-> t]

\* UPDATE tracked_folders SET <column> = CURRENT_TIMESTAMP WHERE google_folder_id
updateLastChecked(tracked, folderId, t) ==
    IF IsNull(tracked[folderId]) THEN tracked
    ELSE [tracked EXCEPT ![folderId] = Some([Val(@) EXCEPT !.last_checked = Some(t)])]

updateFolderModifiedTime(tracked, folderId, t) ==
    IF IsNull(tracked[folderId]) THEN tracked
    ELSE [tracked EXCEPT ![folderId] = Some([Val(@) EXCEPT !.last_modified = Some(t)])]

\* db.updateFolderActiveStatus
updateFolderActiveStatus(tracked, folderId, isActive) ==
    IF IsNull(tracked[folderId]) THEN tracked
    ELSE [tracked EXCEPT ![folderId] = Some([Val(@) EXCEPT !.is_active = isActive])]

----------------------------------------------------------------------------
(* The remote Drive *)

FolderIds == <<"root", "f1", "f2">>
Folders == {FolderIds[k] : k \in 1..MaxFolders}
Requests == 1..MaxRequests

DriveProfiles ==
    {BaseProfile,
     [BaseProfile EXCEPT !.name = NameABCDE],
     [BaseProfile EXCEPT !.mimeType = DocumentMimeType, !.modifiedTime = 2]}

FolderMimeType == "application/vnd.google-apps.folder"

\* The id of a subfolder as it appears in the parents of its children
SubfolderRefs == <<"d1", "d2", "d3", "d4", "d5", "d6">>
FolderRef(id) == SubfolderRefs[id]

\* pageSize: 1000, scaled down: one answer of files.list holds at most
\* PageSize files, and the traversed trees hold at most MaxTreeItems
PageSize == 2

\* A remote folder is the sequence of its files and folders; each of them
\* carries in children what its own listing holds.  files.list answers with
\* the requested fields only, and with the first page only: the code neither
\* requests nor follows nextPageToken.
FilesList(listing) ==
    [k \in 1..(IF Len(listing) < PageSize THEN Len(listing) ELSE PageSize) |->
        [f \in DOMAIN listing[k] \ {"children"} |-> listing[k][f]]]

\* parentPath ? `${parentPath}/${file.name}` : file.name
JoinPath(parentPath, name) ==
    IF parentPath # <<>> THEN parentPath \o <<"/">> \o name ELSE name

\* processFolder: st holds allFiles, the requests made so far and whether a
\* request has thrown; failAt is the number of the request that fails.
RECURSIVE processFolder(_, _, _, _, _), processFiles(_, _, _, _, _)
processFolder(listing, currentFolderId, parentPath, failAt, st) ==
    IF st.failed THEN st
    ELSE IF Len(st.calls) + 1 = failAt
         THEN [st EXCEPT !.calls = Append(@, currentFolderId),
                         !.failed = TRUE]
         ELSE processFiles(listing, 1, parentPath, failAt,
                           [st EXCEPT !.calls = Append(@, currentFolderId)])

\* The loop over response.data.files, from the k-th file on
processFiles(listing, k, parentPath, failAt, st) ==
    IF k > Len(FilesList(listing)) \/ st.failed THEN st
    ELSE LET file == FilesList(listing)[k]
             fullPath == JoinPath(parentPath, file.name)
             pushed == [st EXCEPT !.allFiles =
                                      Append(@, file @@ [fullPath |-> fullPath])]
         IN  processFiles(listing, k + 1, parentPath, failAt,
                 IF file.mimeType = FolderMimeType
                 THEN processFolder(listing[k].children, FolderRef(file.id),
                                    fullPath, failAt, pushed)
                 ELSE pushed)

\* Variant: a failed listing ends the traversal with the files found so far
TraverseFolder_Partial(folderId, listing, failAt) ==
    LET st == processFolder(listing, folderId, <<>>, failAt,
                            [allFiles |-> <<>>, calls |-> <<>>,
                             failed |-> FALSE])
    IN  [files |-> Some(st.allFiles), calls |-> st.calls]

\* DiffTracker.getFolderContents: files is Null when the call throws
TraverseFolder(folderId, listing, failAt) ==
    LET st == processFolder(listing, folderId, <<>>, failAt,
                            [allFiles |-> <<>>, calls |-> <<>>,
                             failed |-> FALSE])
    IN  [files |-> IF st.failed THEN Null ELSE Some(st.allFiles),
         calls |-> st.calls]

\* A folder as files.list reports it
FolderProfile ==
    [name |-> <<"d">>, mimeType |-> FolderMimeType, modifiedTime |-> 1,
     size |-> Null, parents |-> <<"root">>]

\* The trees of n files and folders, not yet identified: every file is one of
\* files, every folder one of folders with a tree as its children
RECURSIVE ShapesOfSize(_, _, _), NodesOfSize(_, _, _)
ShapesOfSize(n, files, folders) ==
    IF n = 0 THEN {<<>>}
    ELSE UNION {{<<node>> \o rest :
                    node \in NodesOfSize(k, files, folders),
                    rest \in ShapesOfSize(n - k, files, folders)} :
                k \in 1..n}

NodesOfSize(k, files, folders) ==
    (IF k = 1 THEN {p @@ [children |-> <<>>] : p \in files} ELSE {})
    \cup {p @@ [children |-> c] :
              p \in folders, c \in ShapesOfSize(k - 1, files, folders)}

RECURSIVE TreeSize(_)
TreeSize(listing) ==
    IF listing = <<>> THEN 0
    ELSE 1 + TreeSize(Head(listing).children) + TreeSize(Tail(listing))

\* The tree under the folder parentRef whose files and folders get the ids
\* ids[first], ids[first + 1], ... in the order a depth-first walk meets them
RECURSIVE Placed(_, _, _, _)
Placed(listing, parentRef, ids, first) ==
    IF listing = <<>> THEN <<>>
    ELSE LET h == Head(listing)
         IN  <<[h EXCEPT !.parents = <<parentRef>>,
                         !.children = Placed(@, FolderRef(ids[first]), ids,
                                             first + 1)]
               @@ [id |-> ids[first]]>>
             \o Placed(Tail(listing), parentRef, ids,
                       first + 1 + TreeSize(h.children))

\* n pairwise different ids out of 1..m, in every order
IdSequences(n, m) ==
    {q \in [1..n -> 1..m] : \A j, k \in 1..n : j # k => q[j] # q[k]}

\* What a remote folder f can hold: up to MaxDriveItems files and folders
FolderListings(f) ==
    UNION {{Placed(shape, f, ids, 1) :
               shape \in ShapesOfSize(n, DriveProfiles, {FolderProfile}),
               ids \in IdSequences(n, MaxDriveId)} :
           n \in 0..MaxDriveItems}

\* The remote trees of the traversal runs: up to MaxTreeItems files and
\* folders named a or b, numbered in the order a depth-first walk meets them
TreeNames == {<<"a">>, <<"b">>}

RemoteTrees ==
    UNION {{Placed(shape, "root", [k \in 1..n |-> k], 1) :
               shape \in ShapesOfSize(n,
                             {[BaseProfile EXCEPT !.name = nm] : nm \in TreeNames},
                             {[FolderProfile EXCEPT !.name = nm] :
                                 nm \in TreeNames})} :
           n \in 0..MaxTreeItems}

\* The folders of a tree, the traversed folder itself not counted
RECURSIVE FolderCount(_)
FolderCount(listing) ==
    IF listing = <<>> THEN 0
    ELSE (IF Head(listing).mimeType = FolderMimeType THEN 1 ELSE 0)
         + FolderCount(Head(listing).children) + FolderCount(Tail(listing))

\* DiffTracker.getParentFolderName answers the name of the first parent (a
\* folder is named by its id here), "root" when the file has no parent,
\* "unknown" when a files.get request fails
ParentNameAnswers(item) ==
    {"unknown"} \cup
    (IF item.parents = <<>> THEN {"root"} ELSE {item.parents[1]})

----------------------------------------------------------------------------
(* Requests *)

IdleRequest ==
    [kind |-> "none", pc |-> "idle", folder |-> Null,
     currentContents |-> <<>>, previousContents |-> Null, changes |-> <<>>,
     idx |-> 0, trackedFolderId |-> Null, parentName |-> Null, saved |-> 0,
     listFailAt |-> 0, caller |-> Null, response |-> Null]

Respond(r, status, chgs) ==
    [req EXCEPT ![r].pc = "done",
                ![r].response = Some([status |-> status, changes |-> chgs,
                                      error |-> Null])]

\* The catch of the handler: 500 with the message of what was thrown; the
\* thrown error is identified by the request that failed
RespondError(r, request, about) ==
    [req EXCEPT ![r].pc = "done",
                ![r].response =
                    Some([status |-> 500, changes |-> <<>>,
                          error |-> Some([request |-> request,
                                          about |-> about])])]

Folder(r) == Val(req[r].folder)

\* The pages that have the UI open, and the state of a page after load:
\* useState([]) for folders, useState(false) for isPolling and isRefreshing
Clients == 1..MaxClients

IdlePage == [folders |-> {}, isPolling |-> FALSE, isRefreshing |-> FALSE]

At(r, kind, p) == req[r].kind = kind /\ req[r].pc = p

----------------------------------------------------------------------------
(* The parts of the state that a run does not use *)

IdleDetect ==
    /\ currentContents = <<>>
    /\ lastContents = Null
    /\ changes = <<>>
    /\ remoteCalls = <<>>
    /\ revisionReplies = NoReplies
    /\ pc = "idle"

IdleSim ==
    /\ simName1 = <<>>
    /\ simName2 = <<>>
    /\ simResult = Null
    /\ simPc = "idle"

IdleTraverse ==
    /\ travTree = <<>>
    /\ travFailAt = 0
    /\ travFiles = <<>>
    /\ travCalls = <<>>
    /\ travPc = "idle"

IdleSys ==
    /\ drive = [f \in Folders |-> <<>>]
    /\ trackedFolders = [f \in Folders |-> Null]
    /\ folderChanges = <<>>
    /\ nextId = 1
    /\ now = 0
    /\ req = [r \in Requests |-> IdleRequest]
    /\ pages = [c \in Clients |-> IdlePage]

----------------------------------------------------------------------------
(* Detection runs: one call of detectChanges on a pair of snapshots *)

InitDetect ==
    /\ currentContents \in CurrentSnapshots
    /\ lastContents \in {Null} \cup {Some(s) : s \in PreviousSnapshots}
    /\ changes = <<>>
    /\ remoteCalls = <<>>
    /\ revisionReplies = NoReplies
    /\ pc = "call"
    /\ IdleSim
    /\ IdleTraverse
    /\ IdleSys

DetectChanges ==
    /\ pc = "call"
    /\ \E revisions \in
             RevisionMaps(RevisionRequests(currentContents, lastContents)) :
          \E r \in {detectChanges(currentContents, lastContents, revisions)} :
              /\ changes' = r.changes
              /\ remoteCalls' = r.calls
              /\ revisionReplies' = revisions
    /\ pc' = "returned"
    /\ UNCHANGED <<currentContents, lastContents, simVars, travVars, sysVars>>

NextDetect == DetectChanges

SpecDetect == InitDetect /\ [][NextDetect]_vars

----------------------------------------------------------------------------
(* Similarity runs: one call of calculateNameSimilarity on a pair of names *)

InitSim ==
    /\ simName1 \in SimNames
    /\ simName2 \in SimNames
    /\ simResult = Null
    /\ simPc = "call"
    /\ IdleDetect
    /\ IdleTraverse
    /\ IdleSys

CalculateNameSimilarity ==
    /\ simPc = "call"
    /\ simResult' = Some(calculateNameSimilarity(simName1, simName2))
    /\ simPc' = "returned"
    /\ UNCHANGED <<simName1, simName2, detectVars, travVars, sysVars>>

NextSim == CalculateNameSimilarity

SpecSim == InitSim /\ [][NextSim]_vars

----------------------------------------------------------------------------
(* Traversal runs: one call of getFolderContents on a remote tree *)

InitTraverse ==
    /\ travTree \in RemoteTrees
    /\ travFailAt \in 0..(MaxTreeItems + 1)
    /\ travFailAt <= FolderCount(travTree) + 1
    /\ travFiles = <<>>
    /\ travCalls = <<>>
    /\ travPc = "call"
    /\ IdleDetect
    /\ IdleSim
    /\ IdleSys

\* The call returns the list, or throws what files.list threw
GetFolderContents ==
    /\ travPc = "call"
    /\ \E r \in {TraverseFolder("root", travTree, travFailAt)} :
           /\ travFiles' = IF IsNull(r.files) THEN <<>> ELSE Val(r.files)
           /\ travCalls' = r.calls
           /\ travPc' = IF IsNull(r.files) THEN "thrown" ELSE "returned"
    /\ UNCHANGED <<travTree, travFailAt, detectVars, simVars, sysVars>>

NextTraverse == GetFolderContents

SpecTraverse == InitTraverse /\ [][NextTraverse]_vars

----------------------------------------------------------------------------
(* The system: the remote Drive, the clock, and the request handlers of    *)
(* pages/api/tracked_folders (POST, PUT) and pages/api/drive_update        *)

Init ==
    /\ IdleDetect
    /\ IdleSim
    /\ IdleTraverse
    /\ IdleSys

\* Somebody changes the files of a remote folder
DriveEditTo(f, s) ==
    /\ s # drive[f]
    /\ drive' = [drive EXCEPT ![f] = s]
    /\ UNCHANGED <<trackedFolders, folderChanges, nextId, now, req,
                   pages,
                   detectVars, simVars, travVars>>

DriveEdit(f) == \E s \in FolderListings(f) : DriveEditTo(f, s)

Tick ==
    /\ now < MaxClock
    /\ now' = now + 1
    /\ UNCHANGED <<drive, trackedFolders, folderChanges, nextId, req,
                   pages,
                   detectVars, simVars, travVars>>

\* POST /api/tracked_folders arrives
TrackStart(r, f) ==
    /\ req[r].kind = "none"
    /\ req' = [req EXCEPT ![r].kind = "track", ![r].pc = "existing",
                          ![r].folder = Some(f)]
    /\ UNCHANGED <<drive, trackedFolders, folderChanges, nextId, now,
                   pages,
                   detectVars, simVars, travVars>>

\* db.getAllTrackedFolders and the 409 answer
TrackCheckExisting(r) ==
    /\ At(r, "track", "existing")
    /\ req' = IF ~IsNull(trackedFolders[Folder(r)])
              THEN Respond(r, 409, <<>>)
              ELSE [req EXCEPT ![r].pc = "getFolder"]
    /\ UNCHANGED <<drive, trackedFolders, folderChanges, nextId, now,
                   pages,
                   detectVars, simVars, travVars>>

\* driveService.files.get of the folder: answers, or throws
TrackGetFolder(r) ==
    /\ At(r, "track", "getFolder")
    /\ \E ok \in BOOLEAN :
           req' = IF ok THEN [req EXCEPT ![r].pc = "add"]
                  ELSE RespondError(r, "files.get", Folder(r))
    /\ UNCHANGED <<drive, trackedFolders, folderChanges, nextId, now,
                   pages,
                   detectVars, simVars, travVars>>

\* db.addTrackedFolder(folderId, name, []) and the 201 answer
TrackAdd(r) ==
    /\ At(r, "track", "add")
    /\ \E a \in {addTrackedFolder(trackedFolders, nextId, Folder(r), <<>>, now)} :
           /\ trackedFolders' = a.tracked
           /\ nextId' = a.nextId
    /\ req' = Respond(r, 201, <<>>)
    /\ UNCHANGED <<drive, folderChanges, now,
                   pages,
                   detectVars, simVars, travVars>>

\* PUT /api/tracked_folders: db.updateFolderActiveStatus
SetActive(f, isActive) ==
    /\ ~IsNull(trackedFolders[f])
    /\ Val(trackedFolders[f]).is_active # isActive
    /\ trackedFolders' = updateFolderActiveStatus(trackedFolders, f, isActive)
    /\ UNCHANGED <<drive, folderChanges, nextId, now, req,
                   pages,
                   detectVars, simVars, travVars>>

\* POST /api/drive_update arrives; no check starts once folder_changes holds
\* limit rows
UpdateStartUnder(r, f, limit) ==
    /\ req[r].kind = "none"
    /\ Len(folderChanges) < limit
    /\ req' = [req EXCEPT ![r].kind = "update", ![r].pc = "getFolder",
                          ![r].folder = Some(f)]
    /\ UNCHANGED <<drive, trackedFolders, folderChanges, nextId, now,
                   pages,
                   detectVars, simVars, travVars>>

UpdateStart(r, f) == UpdateStartUnder(r, f, MaxLedger)

\* driveService.files.get of the folder: answers, or throws
UpdateGetFolder(r) ==
    /\ At(r, "update", "getFolder")
    /\ \E ok \in BOOLEAN :
           req' = IF ok THEN [req EXCEPT ![r].pc = "active"]
                  ELSE RespondError(r, "files.get", Folder(r))
    /\ UNCHANGED <<drive, trackedFolders, folderChanges, nextId, now,
                   pages,
                   detectVars, simVars, travVars>>

\* Variant: the flag is_active is not looked at
UpdateCheckActive_IgnoresFlag(r) ==
    /\ At(r, "update", "active")
    /\ req' = [req EXCEPT ![r].pc = "list"]
    /\ UNCHANGED <<drive, trackedFolders, folderChanges, nextId, now,
                   pages,
                   detectVars, simVars, travVars>>

\* db.getAllTrackedFolders and the 400 answer for a folder that is not active
UpdateCheckActive(r) ==
    /\ At(r, "update", "active")
    /\ req' = IF /\ ~IsNull(trackedFolders[Folder(r)])
                 /\ ~Val(trackedFolders[Folder(r)]).is_active
              THEN Respond(r, 400, <<>>)
              ELSE [req EXCEPT ![r].pc = "list"]
    /\ UNCHANGED <<drive, trackedFolders, folderChanges, nextId, now,
                   pages,
                   detectVars, simVars, travVars>>

\* diffTracker.getFolderContents: the snapshot, or one of its files.list
\* requests throws and the catch answers 500
UpdateList(r) ==
    /\ At(r, "update", "list")
    /\ \E failAt \in 0..(FolderCount(drive[Folder(r)]) + 1) :
           \E t \in {TraverseFolder(Folder(r), drive[Folder(r)], failAt)} :
               req' = IF ~IsNull(t.files)
                      THEN [req EXCEPT ![r].pc = "previous",
                                       ![r].listFailAt = failAt,
                                       ![r].currentContents = Val(t.files)]
                      ELSE [RespondError(r, "files.list",
                                         t.calls[Len(t.calls)])
                               EXCEPT ![r].listFailAt = failAt]
    /\ UNCHANGED <<drive, trackedFolders, folderChanges, nextId, now,
                   pages,
                   detectVars, simVars, travVars>>

\* db.getFolderContents and the test !previousContents
UpdateReadPrevious(r) ==
    /\ At(r, "update", "previous")
    /\ \E previous \in {getFolderContents(trackedFolders, Folder(r))} :
           req' = [req EXCEPT ![r].previousContents = previous,
                              ![r].pc = IF IsFalsy(previous) THEN "first"
                                        ELSE "detect"]
    /\ UNCHANGED <<drive, trackedFolders, folderChanges, nextId, now,
                   pages,
                   detectVars, simVars, travVars>>

\* Variant: the first run stores an empty snapshot, as POST /tracked_folders does
UpdateFirstStore_EmptyBaseline(r) ==
    /\ At(r, "update", "first")
    /\ \E a \in {addTrackedFolder(trackedFolders, nextId, Folder(r),
                                  <<>>, now)} :
           /\ trackedFolders' = a.tracked
           /\ nextId' = a.nextId
    /\ req' = Respond(r, 200, <<>>)
    /\ UNCHANGED <<drive, folderChanges, now,
                   pages,
                   detectVars, simVars, travVars>>

\* First run: db.addTrackedFolder and the answer with changes: []
UpdateFirstStore(r) ==
    /\ At(r, "update", "first")
    /\ \E a \in {addTrackedFolder(trackedFolders, nextId, Folder(r),
                                  req[r].currentContents, now)} :
           /\ trackedFolders' = a.tracked
           /\ nextId' = a.nextId
    /\ req' = Respond(r, 200, <<>>)
    /\ UNCHANGED <<drive, folderChanges, now,
                   pages,
                   detectVars, simVars, travVars>>

\* diffTracker.detectChanges(currentContents, previousContents)
UpdateDetect(r) ==
    /\ At(r, "update", "detect")
    /\ \E revisions \in
           RevisionMaps(RevisionRequests(req[r].currentContents,
                                         req[r].previousContents)) :
           req' = [req EXCEPT
                      ![r].changes =
                          detectChanges(req[r].currentContents,
                                        req[r].previousContents,
                                        revisions).changes,
                      ![r].pc = "store"]
    /\ UNCHANGED <<drive, trackedFolders, folderChanges, nextId, now,
                   pages,
                   detectVars, simVars, travVars>>

\* db.addTrackedFolder with the new snapshot; then the loop over the changes
UpdateStore(r) ==
    /\ At(r, "update", "store")
    /\ \E a \in {addTrackedFolder(trackedFolders, nextId, Folder(r),
                                  req[r].currentContents, now)} :
           /\ trackedFolders' = a.tracked
           /\ nextId' = a.nextId
           /\ req' = [req EXCEPT ![r].trackedFolderId = Some(a.id),
                                 ![r].idx = 1,
                                 ![r].pc = IF req[r].changes = <<>>
                                           THEN "checked" ELSE "recent"]
    /\ UNCHANGED <<drive, folderChanges, now,
                   pages,
                   detectVars, simVars, travVars>>

\* One change: diffTracker.getParentFolderName, then db.saveChange up to its
\* query hasRecentChange; a duplicate is skipped
UpdateHasRecent(r) ==
    /\ At(r, "update", "recent")
    /\ LET change == req[r].changes[req[r].idx]
       IN  \E parentName \in ParentNameAnswers(change.item) :
               req' = IF hasRecentChange(folderChanges, now, Folder(r),
                                         change.type, change.item.name,
                                         parentName)
                      THEN [req EXCEPT
                               ![r].parentName = Some(parentName),
                               ![r].idx = @ + 1,
                               ![r].pc = IF req[r].idx = Len(req[r].changes)
                                         THEN "checked" ELSE "recent"]
                      ELSE [req EXCEPT ![r].parentName = Some(parentName),
                                       ![r].pc = "insert"]
    /\ UNCHANGED <<drive, trackedFolders, folderChanges, nextId, now,
                   pages,
                   detectVars, simVars, travVars>>

\* db.saveChange: INSERT INTO folder_changes.  The row must reference a row
\* of tracked_folders; otherwise the query fails, saveChange throws and the
\* catch of the handler answers 500
UpdateInsert(r) ==
    /\ At(r, "update", "insert")
    /\ IF HasTrackedId(trackedFolders, Val(req[r].trackedFolderId))
       THEN /\ LET change == req[r].changes[req[r].idx]
               IN  folderChanges' =
                       Append(folderChanges,
                              ChangeRow(Val(req[r].trackedFolderId), Folder(r),
                                        change.type, change.item,
                                        Val(req[r].parentName), now))
            /\ req' = [req EXCEPT ![r].idx = @ + 1,
                                  ![r].saved = @ + 1,
                                  ![r].parentName = Null,
                                  ![r].pc = IF req[r].idx = Len(req[r].changes)
                                            THEN "checked" ELSE "recent"]
       ELSE /\ folderChanges' = folderChanges
            /\ req' = RespondError(r, "pool.query", "insert")
    /\ UNCHANGED <<drive, trackedFolders, nextId, now,
                   pages,
                   detectVars, simVars, travVars>>

\* db.updateLastChecked
UpdateLastChecked(r) ==
    /\ At(r, "update", "checked")
    /\ trackedFolders' = updateLastChecked(trackedFolders, Folder(r), now)
    /\ req' = IF Len(req[r].changes) > 0
              THEN [req EXCEPT ![r].pc = "modified"]
              ELSE Respond(r, 200, req[r].changes)
    /\ UNCHANGED <<drive, folderChanges, nextId, now,
                   pages,
                   detectVars, simVars, travVars>>

\* db.updateFolderModifiedTime and the answer with the changes
UpdateModifiedTime(r) ==
    /\ At(r, "update", "modified")
    /\ trackedFolders' = updateFolderModifiedTime(trackedFolders, Folder(r), now)
    /\ req' = Respond(r, 200, req[r].changes)
    /\ UNCHANGED <<drive, folderChanges, nextId, now,
                   pages,
                   detectVars, simVars, travVars>>

\* The answer is sent; the slot takes the next request
Close(r) ==
    /\ req[r].pc = "done"
    /\ req' = [req EXCEPT ![r] = IdleRequest]
    /\ UNCHANGED <<drive, trackedFolders, folderChanges, nextId, now,
                   pages,
                   detectVars, simVars, travVars>>

Next ==
    \/ \E f \in Folders : DriveEdit(f)
    \/ Tick
    \/ \E r \in Requests, f \in Folders : TrackStart(r, f)
    \/ \E r \in Requests : TrackCheckExisting(r)
    \/ \E r \in Requests : TrackGetFolder(r)
    \/ \E r \in Requests : TrackAdd(r)
    \/ \E f \in Folders, isActive \in BOOLEAN : SetActive(f, isActive)
    \/ \E r \in Requests, f \in Folders : UpdateStart(r, f)
    \/ \E r \in Requests : UpdateGetFolder(r)
    \/ \E r \in Requests : UpdateCheckActive(r)
    \/ \E r \in Requests : UpdateList(r)
    \/ \E r \in Requests : UpdateReadPrevious(r)
    \/ \E r \in Requests : UpdateFirstStore(r)
    \/ \E r \in Requests : UpdateDetect(r)
    \/ \E r \in Requests : UpdateStore(r)
    \/ \E r \in Requests : UpdateHasRecent(r)
    \/ \E r \in Requests : UpdateInsert(r)
    \/ \E r \in Requests : UpdateLastChecked(r)
    \/ \E r \in Requests : UpdateModifiedTime(r)
    \/ \E r \in Requests : Close(r)

Spec == Init /\ [][Next]_vars

----------------------------------------------------------------------------
(* The system under concurrency: several requests at a time, a database    *)
(* whose queries can fail, and DELETE /api/tracked_folders, over remote    *)
(* folders that hold at most one file                                      *)

\* The requests of a run; each of them is one request from arrival to answer
ConcRequests == 1..MaxConcRequests
ConcFolders == Folders

FolderIndex(f) == CHOOSE k \in 1..Len(FolderIds) : FolderIds[k] = f

\* What a remote folder holds in these runs: nothing, the base file, or the
\* base file with a later modifiedTime; the file of the k-th folder has id k
ConcListings(f) ==
    {<<>>} \cup
    {Placed(<<p @@ [children |-> <<>>]>>, f, <<FolderIndex(f)>>, 1) :
        p \in {BaseProfile, [BaseProfile EXCEPT !.modifiedTime = 2]}}

\* What tracked_folders can hold for a folder when a run starts: no row, or
\* the snapshot its first check fetched
ConcBaselines(f) ==
    {Null} \cup
    {Some(Val(TraverseFolder(f, s, 0).files)) : s \in ConcListings(f)}

\* The tables after the first checks of the folders with a baseline, made in
\* the order of FolderIds at time 0
RECURSIVE FirstChecked(_, _, _)
FirstChecked(base, k, acc) ==
    IF k > Len(FolderIds) \/ FolderIds[k] \notin DOMAIN base THEN acc
    ELSE IF IsNull(base[FolderIds[k]]) THEN FirstChecked(base, k + 1, acc)
         ELSE FirstChecked(base, k + 1,
                           addTrackedFolder(acc.tracked, acc.nextId,
                                            FolderIds[k],
                                            Val(base[FolderIds[k]]), 0))

InitConc ==
    /\ IdleDetect
    /\ IdleSim
    /\ IdleTraverse
    /\ drive = [f \in ConcFolders |-> <<>>]
    /\ \E base \in [ConcFolders ->
                        UNION {ConcBaselines(f) : f \in ConcFolders}] :
           /\ \A f \in ConcFolders : base[f] \in ConcBaselines(f)
           /\ \E t \in {FirstChecked(
                            base, 1,
                            [tracked |-> [f \in ConcFolders |-> Null],
                             nextId |-> 1, id |-> 0])} :
                  /\ trackedFolders = t.tracked
                  /\ nextId = t.nextId
    /\ folderChanges = <<>>
    /\ now = 0
    /\ req = [r \in ConcRequests |-> IdleRequest]
    /\ pages = [c \in Clients |-> IdlePage]

\* The positions of a check at which the next statement is a database query
DbSteps ==
    {"active", "previous", "first", "store", "recent", "insert", "checked",
     "modified"}

\* pool.query rejects: the method of db logs and rethrows, and the catch of
\* the handler answers 500
UpdateDbFails(r) ==
    /\ req[r].kind = "update"
    /\ req[r].pc \in DbSteps
    /\ req' = RespondError(r, "pool.query", req[r].pc)
    /\ UNCHANGED <<drive, trackedFolders, folderChanges, nextId, now,
                   pages,
                   detectVars, simVars, travVars>>

\* DELETE /api/tracked_folders arrives
RemoveStart(r, f) ==
    /\ req[r].kind = "none"
    /\ req' = [req EXCEPT ![r].kind = "remove", ![r].pc = "deleteChanges",
                          ![r].folder = Some(f)]
    /\ UNCHANGED <<drive, trackedFolders, folderChanges, nextId, now,
                   pages,
                   detectVars, simVars, travVars>>

\* db.removeTrackedFolder: DELETE FROM folder_changes WHERE google_folder_id
RemoveChanges(r) ==
    /\ At(r, "remove", "deleteChanges")
    /\ folderChanges' =
           SelectSeq(folderChanges,
                     LAMBDA row : row.google_folder_id # Folder(r))
    /\ req' = [req EXCEPT ![r].pc = "deleteFolder"]
    /\ UNCHANGED <<drive, trackedFolders, nextId, now,
                   pages,
                   detectVars, simVars, travVars>>

\* db.removeTrackedFolder: DELETE FROM tracked_folders WHERE google_folder_id
\* RETURNING *, and the answer: 404 when no row was deleted, 200 when one
\* was, 500 when a row of folder_changes still references the row
RemoveFolder(r) ==
    /\ At(r, "remove", "deleteFolder")
    /\ IF IsNull(trackedFolders[Folder(r)])
       THEN /\ trackedFolders' = trackedFolders
            /\ req' = Respond(r, 404, <<>>)
       ELSE IF \E k \in 1..Len(folderChanges) :
                   folderChanges[k].tracked_folder_id =
                       Val(trackedFolders[Folder(r)]).id
            THEN /\ trackedFolders' = trackedFolders
                 /\ req' = RespondError(r, "pool.query", "deleteFolder")
            ELSE /\ trackedFolders' =
                        [trackedFolders EXCEPT ![Folder(r)] = Null]
                 /\ req' = Respond(r, 200, <<>>)
    /\ UNCHANGED <<drive, folderChanges, nextId, now,
                   pages,
                   detectVars, simVars, travVars>>

NextConc ==
    \/ \E f \in ConcFolders : \E s \in ConcListings(f) : DriveEditTo(f, s)
    \/ Tick
    \/ \E r \in ConcRequests, f \in ConcFolders :
           UpdateStartUnder(r, f, MaxConcLedger)
    \/ \E r \in ConcRequests : UpdateGetFolder(r)
    \/ \E r \in ConcRequests : UpdateCheckActive(r)
    \/ \E r \in ConcRequests : UpdateList(r)
    \/ \E r \in ConcRequests : UpdateReadPrevious(r)
    \/ \E r \in ConcRequests : UpdateFirstStore(r)
    \/ \E r \in ConcRequests : UpdateDetect(r)
    \/ \E r \in ConcRequests : UpdateStore(r)
    \/ \E r \in ConcRequests : UpdateHasRecent(r)
    \/ \E r \in ConcRequests : UpdateInsert(r)
    \/ \E r \in ConcRequests : UpdateLastChecked(r)
    \/ \E r \in ConcRequests : UpdateModifiedTime(r)
    \/ \E r \in ConcRequests : UpdateDbFails(r)
    \/ \E r \in ConcRequests, f \in ConcFolders : RemoveStart(r, f)
    \/ \E r \in ConcRequests : RemoveChanges(r)
    \/ \E r \in ConcRequests : RemoveFolder(r)

SpecConc == InitConc /\ [][NextConc]_vars

----------------------------------------------------------------------------
(* Checks of two different folders at the same time: request 1 is about    *)
(* the first folder, request 2 about the second                            *)

IsoRequests == 1..2
IsoFolder(r) == FolderIds[r]
IsoFolders == {IsoFolder(r) : r \in IsoRequests}

InitIso ==
    /\ IdleDetect
    /\ IdleSim
    /\ IdleTraverse
    /\ \E d \in [IsoFolders -> UNION {ConcListings(f) : f \in IsoFolders}] :
           /\ \A f \in IsoFolders : d[f] \in ConcListings(f)
           /\ drive = d
    /\ \E base \in [IsoFolders ->
                        UNION {ConcBaselines(f) : f \in IsoFolders}] :
           /\ \A f \in IsoFolders : base[f] \in ConcBaselines(f)
           /\ \E t \in {FirstChecked(
                            base, 1,
                            [tracked |-> [f \in IsoFolders |-> Null],
                             nextId |-> 1, id |-> 0])} :
                  /\ trackedFolders = t.tracked
                  /\ nextId = t.nextId
    /\ folderChanges = <<>>
    /\ now = 0
    /\ req = [r \in IsoRequests |-> IdleRequest]
    /\ pages = [c \in Clients |-> IdlePage]

NextIso ==
    \/ Tick
    \/ \E r \in IsoRequests : UpdateStartUnder(r, IsoFolder(r), MaxConcLedger)
    \/ \E r \in IsoRequests : UpdateGetFolder(r)
    \/ \E r \in IsoRequests : UpdateCheckActive(r)
    \/ \E r \in IsoRequests : UpdateList(r)
    \/ \E r \in IsoRequests : UpdateReadPrevious(r)
    \/ \E r \in IsoRequests : UpdateFirstStore(r)
    \/ \E r \in IsoRequests : UpdateDetect(r)
    \/ \E r \in IsoRequests : UpdateStore(r)
    \/ \E r \in IsoRequests : UpdateHasRecent(r)
    \/ \E r \in IsoRequests : UpdateInsert(r)
    \/ \E r \in IsoRequests : UpdateLastChecked(r)
    \/ \E r \in IsoRequests : UpdateModifiedTime(r)
    \/ \E r \in IsoRequests : UpdateDbFails(r)

SpecIso == InitIso /\ [][NextIso]_vars

----------------------------------------------------------------------------
(* The callers: the pages of the UI (app/page.tsx) with their polling      *)
(* interval and their button Check Now, and the checks they send           *)

UiRequests == 1..MaxUiRequests

InitUi ==
    /\ IdleDetect
    /\ IdleSim
    /\ IdleTraverse
    /\ \E d \in [Folders -> UNION {ConcListings(f) : f \in Folders}] :
           /\ \A f \in Folders : d[f] \in ConcListings(f)
           /\ drive = d
    /\ \E base \in [Folders -> UNION {ConcBaselines(f) : f \in Folders}] :
           /\ \A f \in Folders : base[f] \in ConcBaselines(f)
           /\ \E t \in {FirstChecked(
                            base, 1,
                            [tracked |-> [f \in Folders |-> Null],
                             nextId |-> 1, id |-> 0])} :
                  /\ trackedFolders = t.tracked
                  /\ nextId = t.nextId
    /\ folderChanges = <<>>
    /\ now = 0
    /\ req = [r \in UiRequests |-> IdleRequest]
    /\ pages = [c \in Clients |-> IdlePage]

\* loadFolders: GET /api/tracked_folders (db.getAllTrackedFolders), setFolders
LoadFolders(c) ==
    /\ pages' = [pages EXCEPT ![c].folders =
                     {[google_folder_id |-> f,
                       is_active |-> Val(trackedFolders[f]).is_active] :
                          f \in {g \in DOMAIN trackedFolders :
                                    ~IsNull(trackedFolders[g])}}]
    /\ pages'[c] # pages[c]
    /\ UNCHANGED <<drive, trackedFolders, folderChanges, nextId, now, req,
                   detectVars, simVars, travVars>>

\* The button Start Monitoring / Stop Monitoring: setIsPolling(!isPolling)
TogglePolling(c) ==
    /\ pages' = [pages EXCEPT ![c].isPolling = ~@]
    /\ UNCHANGED <<drive, trackedFolders, folderChanges, nextId, now, req,
                   detectVars, simVars, travVars>>

\* checkFolderUpdates up to its await: setIsRefreshing(true) and one fetch of
\* /api/drive_update per active folder of the page's list, all sent before
\* any answer is awaited; slot[f] is the request that the fetch for f becomes
CheckFolderUpdates(c, slot) ==
    /\ DOMAIN slot = {f.google_folder_id :
                         f \in {g \in pages[c].folders : g.is_active}}
    /\ \A f \in DOMAIN slot : req[slot[f]].kind = "none"
    /\ \A f, g \in DOMAIN slot : f # g => slot[f] # slot[g]
    /\ pages' = [pages EXCEPT ![c].isRefreshing = TRUE]
    /\ req' = [r \in DOMAIN req |->
                  IF \E f \in DOMAIN slot : slot[f] = r
                  THEN [req[r] EXCEPT
                           !.kind = "update", !.pc = "getFolder",
                           !.folder = Some(CHOOSE f \in DOMAIN slot :
                                               slot[f] = r),
                           !.caller = Some([page |-> c, call |-> slot])]
                  ELSE req[r]]
    /\ UNCHANGED <<drive, trackedFolders, folderChanges, nextId, now,
                   detectVars, simVars, travVars>>

\* The callback of useInterval runs: the page is polling and has folders
PollTick(c, slot) ==
    /\ pages[c].isPolling
    /\ pages[c].folders # {}
    /\ CheckFolderUpdates(c, slot)

\* The button Check Now is clicked; it is disabled while isRefreshing
ClickCheckNow(c, slot) ==
    /\ ~pages[c].isRefreshing
    /\ CheckFolderUpdates(c, slot)

\* Promise.all of one call of checkFolderUpdates settles: all its fetches
\* were answered; finally setIsRefreshing(false)
ChecksSettled(c, slot) ==
    /\ DOMAIN slot # {}
    /\ \A f \in DOMAIN slot :
           /\ req[slot[f]].pc = "done"
           /\ req[slot[f]].caller = Some([page |-> c, call |-> slot])
    /\ pages' = [pages EXCEPT ![c].isRefreshing = FALSE]
    /\ req' = [r \in DOMAIN req |->
                  IF \E f \in DOMAIN slot : slot[f] = r
                  THEN IdleRequest ELSE req[r]]
    /\ UNCHANGED <<drive, trackedFolders, folderChanges, nextId, now,
                   detectVars, simVars, travVars>>

\* handleFolderAction with action "delete": the page sends DELETE
\* /api/tracked_folders for a folder of its list
PageDelete(c, r, f) ==
    /\ nextId <= MaxRowId
    /\ \E g \in pages[c].folders : g.google_folder_id = f
    /\ RemoveStart(r, f)

\* The answer to the DELETE is received
PageDeleteAnswered(r) ==
    /\ req[r].kind = "remove"
    /\ Close(r)

\* The ways to give each folder of a subset of Folders a request of its own
SlotMaps ==
    UNION {[fs -> UiRequests] : fs \in SUBSET Folders}

NextUi ==
    \/ \E c \in Clients : LoadFolders(c)
    \/ \E c \in Clients : TogglePolling(c)
    \/ \E c \in Clients, slot \in SlotMaps : PollTick(c, slot)
    \/ \E c \in Clients, slot \in SlotMaps : ClickCheckNow(c, slot)
    \/ \E c \in Clients, slot \in SlotMaps : ChecksSettled(c, slot)
    \/ \E r \in UiRequests : UpdateGetFolder(r)
    \/ \E r \in UiRequests : UpdateCheckActive(r)
    \/ \E r \in UiRequests : UpdateList(r)
    \/ \E r \in UiRequests : UpdateReadPrevious(r)
    \/ \E r \in UiRequests : UpdateFirstStore(r)
    \/ \E r \in UiRequests : UpdateDetect(r)
    \/ \E r \in UiRequests : UpdateStore(r)
    \/ \E r \in UiRequests : UpdateHasRecent(r)
    \/ \E r \in UiRequests : UpdateInsert(r)
    \/ \E r \in UiRequests : UpdateLastChecked(r)
    \/ \E r \in UiRequests : UpdateModifiedTime(r)
    \/ \E c \in Clients, r \in UiRequests, f \in Folders : PageDelete(c, r, f)
    \/ \E r \in UiRequests : RemoveChanges(r)
    \/ \E r \in UiRequests : RemoveFolder(r)
    \/ \E r \in UiRequests : PageDeleteAnswered(r)

SpecUi == InitUi /\ [][NextUi]_vars

----------------------------------------------------------------------------
(* Vocabulary of the properties of detectChanges *)

Returned == pc = "returned"

HasBaseline == ~IsNull(lastContents)

\* The indexes of the returned changes of one type about the item with one id
ChangesAbout(type, id) ==
    {i \in 1..Len(changes) : changes[i].type = type /\ changes[i].item.id = id}

IdIn(contents, id) == \E k \in 1..Len(contents) : contents[k].id = id

\* A score strictly above 0.8 = 4/5
ScoreAbove(sim) == sim.den > 0 /\ 5 * sim.num > 4 * sim.den

\* p is a rename candidate for c: same mimeType, same size, score above 0.8
Qualifies(c, p) ==
    /\ p.mimeType = c.mimeType
    /\ p.size = c.size
    /\ ScoreAbove(calculateNameSimilarity(c.name, p.name))

QualifyingIndexes(c, prev) == {j \in 1..Len(prev) : Qualifies(c, prev[j])}

\* The earliest candidate in the order of the previous snapshot
FirstQualifying(c, prev) ==
    CHOOSE j \in QualifyingIndexes(c, prev) :
        \A i \in QualifyingIndexes(c, prev) : j <= i

\* The returned changes of type renamed whose old side is prev[j]
RenamedFrom(prev, j) ==
    {i \in 1..Len(changes) :
        /\ changes[i].type = "renamed"
        /\ QualifyingIndexes(changes[i].item, prev) # {}
        /\ FirstQualifying(changes[i].item, prev) = j}

----------------------------------------------------------------------------
(* C1 - C9: properties of detectChanges, checked under SpecDetect; C3 follows *)
(* the check of drive_update through the system, under Spec               *)

\* C1: with a null previous snapshot detectChanges returns the empty list,
\* whatever the current snapshot, and requests nothing from the remote source.
C1_NullBaselineNoChanges ==
    (Returned /\ IsNull(lastContents)) =>
        (changes = <<>> /\ remoteCalls = <<>>)

C1_Witness ==
    /\ Returned
    /\ IsNull(lastContents)
    /\ Len(currentContents) >= 2
    /\ \E k \in 1..Len(currentContents) :
           currentContents[k].mimeType = DocumentMimeType

\* C2: a snapshot compared with itself yields no change of any type.
C2_SelfDiffEmpty ==
    (Returned /\ lastContents = Some(currentContents)) => changes = <<>>

C2_Witness ==
    /\ Returned
    /\ lastContents = Some(currentContents)
    /\ Len(currentContents) >= 2
    /\ \E k \in 1..Len(currentContents) : IsNull(currentContents[k].size)
    /\ \E k \in 1..Len(currentContents) :
           currentContents[k].mimeType = DocumentMimeType

\* C3: a drive_update check that reads the empty list [] as the stored
\* snapshot (the baseline POST /tracked_folders stores) and lists a non-empty
\* folder gets [] from detectChanges: the 200 answer carries no changes and the
\* check inserts no row into folder_changes.
C3_EmptyBaselineNoChanges ==
    \A r \in Requests :
        (/\ At(r, "update", "done")
         /\ Val(req[r].response).status = 200
         /\ req[r].previousContents = Some(<<>>)
         /\ req[r].currentContents # <<>>) =>
            (/\ req[r].changes = <<>>
             /\ Val(req[r].response).changes = <<>>
             /\ req[r].saved = 0)

C5_RenameSourceVanished ==
    (Returned /\ HasBaseline) =>
        \A j \in 1..Len(Val(lastContents)) :
            RenamedFrom(Val(lastContents), j) # {} =>
                ~IdIn(currentContents, Val(lastContents)[j].id)

\* C6: every previous item whose id is absent from current gets exactly one
\* removed change carrying it, unless it is the old side of a renamed change,
\* in which case it gets none.
C6_RemovedUnlessRenameSource ==
    (Returned /\ HasBaseline) =>
        \A j \in 1..Len(Val(lastContents)) :
            LET prev == Val(lastContents)
            IN  ~IdIn(currentContents, prev[j].id) =>
                    IF RenamedFrom(prev, j) # {}
                    THEN ChangesAbout("removed", prev[j].id) = {}
                    ELSE /\ Cardinality(ChangesAbout("removed", prev[j].id)) = 1
                         /\ \A i \in ChangesAbout("removed", prev[j].id) :
                                changes[i].item = prev[j]

\* C7: a previous item is the old side of at most one renamed change.
C7_RenameSourceConsumedOnce ==
    (Returned /\ HasBaseline) =>
        \A j \in 1..Len(Val(lastContents)) :
            Cardinality(RenamedFrom(Val(lastContents), j)) <= 1

\* C8: the old name and score of a renamed change are those of the earliest
\* rename candidate in the order of the previous snapshot, also when a later
\* candidate scores higher.
C8_FirstCandidateWins ==
    (Returned /\ HasBaseline) =>
        \A i \in 1..Len(changes) :
            changes[i].type = "renamed" =>
                LET c == changes[i].item
                    prev == Val(lastContents)
                IN  /\ QualifyingIndexes(c, prev) # {}
                    /\ changes[i].oldName = prev[FirstQualifying(c, prev)].name
                    /\ changes[i].similarity =
                           calculateNameSimilarity(
                               c.name, prev[FirstQualifying(c, prev)].name)

\* Two candidates with different names, the later one with the higher score
C8_Witness ==
    /\ Returned
    /\ HasBaseline
    /\ \E i \in 1..Len(changes) :
           /\ changes[i].type = "renamed"
           /\ LET c == changes[i].item
                  prev == Val(lastContents)
              IN  \E j \in QualifyingIndexes(c, prev) :
                      LET first == prev[FirstQualifying(c, prev)]
                          s1 == calculateNameSimilarity(c.name, first.name)
                          s2 == calculateNameSimilarity(c.name, prev[j].name)
                      IN  /\ j > FirstQualifying(c, prev)
                          /\ prev[j].name # first.name
                          /\ s2.num * s1.den > s1.num * s2.den
                          /\ changes[i].oldName = first.name

\* C9: a renamed change has a previous item of equal mimeType and equal size
\* whose score is strictly above 0.8; a current item with a new id and no such
\* previous item (a score of exactly 0.8 included) gets one added change and
\* no renamed change.
C9_CandidateNeedsTypeSizeScore ==
    (Returned /\ HasBaseline) =>
        LET prev == Val(lastContents)
        IN  /\ \A i \in 1..Len(changes) :
                   changes[i].type = "renamed" =>
                       \E j \in 1..Len(prev) :
                           /\ prev[j].mimeType = changes[i].item.mimeType
                           /\ prev[j].size = changes[i].item.size
                           /\ prev[j].name = changes[i].oldName
                           /\ ScoreAbove(changes[i].similarity)
                           /\ changes[i].similarity =
                                  calculateNameSimilarity(
                                      changes[i].item.name, prev[j].name)
            /\ \A k \in 1..Len(currentContents) :
                   LET c == currentContents[k]
                   IN  (~IdIn(prev, c.id) /\ QualifyingIndexes(c, prev) = {}) =>
                           /\ Cardinality(ChangesAbout("added", c.id)) = 1
                           /\ ChangesAbout("renamed", c.id) = {}

\* A new item whose only same-type, same-size neighbour scores exactly 0.8
C9_Witness ==
    /\ Returned
    /\ HasBaseline
    /\ \E k \in 1..Len(currentContents) :
           LET c == currentContents[k]
               prev == Val(lastContents)
           IN  /\ ~IdIn(prev, c.id)
               /\ \E j \in 1..Len(prev) :
                      LET s == calculateNameSimilarity(c.name, prev[j].name)
                      IN  /\ prev[j].mimeType = c.mimeType
                          /\ prev[j].size = c.size
                          /\ 5 * s.num = 4 * s.den
                          /\ s.den > 0
               /\ ChangesAbout("added", c.id) # {}

----------------------------------------------------------------------------
(* C10: properties of calculateNameSimilarity, checked under SpecSim *)

SimReturned == simPc = "returned"

\* C10, as stated: the similarity of "Report.docx" and "Report (1).docx" is
\* greater than 0.8.
C10_ReportCopyAboveThreshold ==
    (SimReturned /\ simName1 = ReportDocx /\ simName2 = ReportCopyDocx) =>
        ScoreAbove(Val(simResult))

\* C10, amended: the similarity of "Report.docx" and "Report (1).docx" is
\* 6 unchanged characters over the 10 characters of the longer stripped name,
\* 0.6, which is not greater than 0.8.
C10_ReportCopyScore ==
    (SimReturned /\ simName1 = ReportDocx /\ simName2 = ReportCopyDocx) =>
        /\ Val(simResult) = [num |-> 6, den |-> 10]
        /\ ~ScoreAbove(Val(simResult))

C10_Witness ==
    /\ SimReturned
    /\ simName1 = ReportDocx
    /\ simName2 = ReportCopyDocx
    /\ Val(simResult).den = Len(StripExtension(ReportCopyDocx))

\* C11: calculateNameSimilarity returns a number in [0, 1] for every pair of
\* names: the quotient is defined (no division by zero) and lies between 0
\* and 1; two names that are both empty after stripping score 0.
C11_SimilarityInUnitInterval ==
    SimReturned =>
        /\ Val(simResult).den > 0
        /\ 0 <= Val(simResult).num
        /\ Val(simResult).num <= Val(simResult).den

----------------------------------------------------------------------------
(* C12 - C18: items whose id is in both snapshots, under SpecDetect *)

\* The indexes of the returned changes about the item with one id
ChangesOf(id) == {i \in 1..Len(changes) : changes[i].item.id = id}

\* The item of the previous snapshot with the id of c
Previous(c) == MapGet(Val(lastContents), c.id)

\* c is in both snapshots by id
Persists(c) == HasBaseline /\ IdIn(Val(lastContents), c.id)

\* C12: an item in both snapshots whose modifiedTime differs and whose first
\* parent is the same gets exactly one change, of type modified, whose details
\* carry the previous and new modifiedTime, the previous and new size and
\* sizeDelta = new size - previous size, a missing size counting as 0.
C12_ModifiedOnceWithDetails ==
    (Returned /\ HasBaseline) =>
        \A k \in 1..Len(currentContents) :
            LET c == currentContents[k]
            IN  (/\ Persists(c)
                 /\ c.modifiedTime # Previous(c).modifiedTime
                 /\ FirstParent(c) = FirstParent(Previous(c))) =>
                    /\ Cardinality(ChangesOf(c.id)) = 1
                    /\ \A i \in ChangesOf(c.id) :
                           LET d == changes[i].modificationDetails
                               newSize == IF IsNull(c.size) THEN 0
                                          ELSE Val(c.size)
                               previousSize ==
                                   IF IsNull(Previous(c).size) THEN 0
                                   ELSE Val(Previous(c).size)
                           IN  /\ changes[i].type = "modified"
                               /\ changes[i].item = c
                               /\ d.previousModifiedTime =
                                      Previous(c).modifiedTime
                               /\ d.newModifiedTime = c.modifiedTime
                               /\ d.previousSize = previousSize
                               /\ d.newSize = newSize
                               /\ d.sizeDelta = newSize - previousSize

\* A modified item that lost its size: the delta is negative
C12_Witness ==
    /\ Returned
    /\ HasBaseline
    /\ \E k \in 1..Len(currentContents) :
           LET c == currentContents[k]
           IN  /\ Persists(c)
               /\ c.modifiedTime # Previous(c).modifiedTime
               /\ FirstParent(c) = FirstParent(Previous(c))
               /\ IsNull(c.size)
               /\ ~IsNull(Previous(c).size)
               /\ \E i \in ChangesOf(c.id) :
                      /\ changes[i].type = "modified"
                      /\ changes[i].modificationDetails.sizeDelta < 0

\* C13: an item in both snapshots with a different first parent and the same
\* modifiedTime and name gets exactly one change, of type moved, with
\* oldParentId the previous parent and newParentId the current parent; it gets
\* no modified and no renamed change.
C13_MovedOnce ==
    (Returned /\ HasBaseline) =>
        \A k \in 1..Len(currentContents) :
            LET c == currentContents[k]
            IN  (/\ Persists(c)
                 /\ FirstParent(c) # FirstParent(Previous(c))
                 /\ c.modifiedTime = Previous(c).modifiedTime
                 /\ c.name = Previous(c).name) =>
                    /\ Cardinality(ChangesOf(c.id)) = 1
                    /\ \A i \in ChangesOf(c.id) :
                           /\ changes[i].type = "moved"
                           /\ changes[i].item = c
                           /\ changes[i].oldParentId = FirstParent(Previous(c))
                           /\ changes[i].newParentId = FirstParent(c)
                    /\ ChangesAbout("modified", c.id) = {}
                    /\ ChangesAbout("renamed", c.id) = {}

\* An item moved from root to f1, next to another item of the snapshot
C13_Witness ==
    /\ Returned
    /\ HasBaseline
    /\ Len(currentContents) >= 2
    /\ \E k \in 1..Len(currentContents) :
           LET c == currentContents[k]
           IN  /\ Persists(c)
               /\ FirstParent(Previous(c)) = Some("root")
               /\ FirstParent(c) = Some("f1")
               /\ c.modifiedTime = Previous(c).modifiedTime
               /\ c.name = Previous(c).name
               /\ ChangesAbout("moved", c.id) # {}

\* C14: an item in both snapshots whose modifiedTime and first parent both
\* differ gets two changes in the same pass: one modified and, after it, one
\* moved.
C14_ModifiedAndMoved ==
    (Returned /\ HasBaseline) =>
        \A k \in 1..Len(currentContents) :
            LET c == currentContents[k]
            IN  (/\ Persists(c)
                 /\ c.modifiedTime # Previous(c).modifiedTime
                 /\ FirstParent(c) # FirstParent(Previous(c))) =>
                    /\ Cardinality(ChangesOf(c.id)) = 2
                    /\ Cardinality(ChangesAbout("modified", c.id)) = 1
                    /\ Cardinality(ChangesAbout("moved", c.id)) = 1
                    /\ \A i \in ChangesAbout("modified", c.id) :
                           \A j \in ChangesAbout("moved", c.id) : i < j

\* A document edited and moved between two checks
C14_Witness ==
    /\ Returned
    /\ HasBaseline
    /\ \E k \in 1..Len(currentContents) :
           LET c == currentContents[k]
           IN  /\ Persists(c)
               /\ c.mimeType = DocumentMimeType
               /\ c.modifiedTime # Previous(c).modifiedTime
               /\ FirstParent(c) # FirstParent(Previous(c))
               /\ ChangesAbout("modified", c.id) # {}
               /\ ChangesAbout("moved", c.id) # {}

\* C15: an item whose id is in both snapshots gets no added, no removed and no
\* renamed change, whatever its names are; when only its name differs
\* (modifiedTime and first parent the same) it gets no change at all.
C15_PersistingIdNotAddedRemovedRenamed ==
    (Returned /\ HasBaseline) =>
        \A k \in 1..Len(currentContents) :
            LET c == currentContents[k]
            IN  Persists(c) =>
                    /\ \A i \in ChangesOf(c.id) :
                           changes[i].type \notin {"added", "removed", "renamed"}
                    /\ (/\ c.modifiedTime = Previous(c).modifiedTime
                        /\ FirstParent(c) = FirstParent(Previous(c))) =>
                           ChangesOf(c.id) = {}

\* An item renamed in place, while another item of the snapshot changes
C15_Witness ==
    /\ Returned
    /\ HasBaseline
    /\ changes # <<>>
    /\ \E k \in 1..Len(currentContents) :
           LET c == currentContents[k]
           IN  /\ Persists(c)
               /\ c.name # Previous(c).name
               /\ c.modifiedTime = Previous(c).modifiedTime
               /\ FirstParent(c) = FirstParent(Previous(c))
               /\ ChangesOf(c.id) = {}

\* The place of the item with an id in a snapshot
Position(contents, id) == CHOOSE k \in 1..Len(contents) : contents[k].id = id

CurrentSideTypes == {"added", "renamed", "modified", "moved"}

\* C16: the returned list is the current-side changes (added, renamed,
\* modified, moved) in the order of the current snapshot, followed by the
\* removed changes in the order of the previous snapshot; no removed entry
\* precedes a current-side entry.
C16_CurrentSideThenRemoved ==
    (Returned /\ HasBaseline) =>
        \A i, j \in 1..Len(changes) :
            i < j =>
                /\ changes[i].type = "removed" => changes[j].type = "removed"
                /\ (/\ changes[i].type \in CurrentSideTypes
                    /\ changes[j].type \in CurrentSideTypes) =>
                       Position(currentContents, changes[i].item.id)
                           <= Position(currentContents, changes[j].item.id)
                /\ (changes[i].type = "removed" /\ changes[j].type = "removed")
                       => Position(Val(lastContents), changes[i].item.id)
                              < Position(Val(lastContents), changes[j].item.id)

\* Two current-side entries about different items, the first with the larger
\* id, and a removed entry after them
C16_Witness ==
    /\ Returned
    /\ HasBaseline
    /\ Len(changes) >= 3
    /\ changes[1].type \in CurrentSideTypes
    /\ changes[2].type \in CurrentSideTypes
    /\ changes[1].item.id > changes[2].item.id
    /\ changes[Len(changes)].type = "removed"

\* A change without the revisionInfo field of its details
WithoutRevisionInfo(change) ==
    IF change.type = "modified"
    THEN [change EXCEPT !.modificationDetails =
             [f \in DOMAIN @ \ {"revisionInfo"} |-> @[f]]]
    ELSE change

\* The answers revisions.list can give to the requests of the call
PossibleAnswers == RevisionMaps(RevisionRequests(currentContents, lastContents))

\* The list a call on the same snapshots returns when revisions.list answers
\* with revisions
SameCall(revisions) ==
    detectChanges(currentContents, lastContents, revisions).changes

\* C17 as stated: two calls on equal snapshot pairs return equal lists,
\* whatever revisions.list answers.
C17_PureFunctionOfSnapshots ==
    Returned => \A revisions \in PossibleAnswers : SameCall(revisions) = changes

\* C17: two calls on equal snapshot pairs return lists that are equal entry
\* by entry except for the revisionInfo of the modified entries, which holds
\* what revisions.list answered; when the pair has no modified document no
\* request is made and the lists are equal; the call leaves both snapshots as
\* they were.
C17_DeterminedUpToRevisionInfo ==
    /\ [](Returned =>
            \A revisions \in PossibleAnswers :
                /\ Len(SameCall(revisions)) = Len(changes)
                /\ \A i \in 1..Len(changes) :
                       WithoutRevisionInfo(SameCall(revisions)[i])
                           = WithoutRevisionInfo(changes[i])
                /\ remoteCalls = <<>> => SameCall(revisions) = changes)
    /\ [][/\ currentContents' = currentContents
          /\ lastContents' = lastContents]_vars

\* A modified document next to another changed item: the revisionInfo of the
\* returned entry differs from the one another answer would give
C17_Witness ==
    /\ Returned
    /\ remoteCalls # <<>>
    /\ Len(changes) >= 2
    /\ \E revisions \in PossibleAnswers : SameCall(revisions) # changes

\* revisions.list was asked about the item and failed
FetchFailed(c) ==
    /\ \E k \in 1..Len(remoteCalls) : remoteCalls[k] = c.id
    /\ IsNull(revisionReplies[c.id])

\* C18: when revisions.list fails for a modified document, detectChanges
\* still returns the modified change of that item, and the details of that
\* change have no revisionInfo field at all.
C18_FailedFetchOmitsRevisionInfo ==
    (Returned /\ HasBaseline) =>
        \A k \in 1..Len(currentContents) :
            LET c == currentContents[k]
            IN  (/\ Persists(c)
                 /\ c.modifiedTime # Previous(c).modifiedTime
                 /\ c.mimeType = DocumentMimeType
                 /\ FetchFailed(c)) =>
                    /\ Cardinality(ChangesAbout("modified", c.id)) = 1
                    /\ \A i \in ChangesAbout("modified", c.id) :
                           "revisionInfo" \notin
                               DOMAIN changes[i].modificationDetails

----------------------------------------------------------------------------
(* C20: getFolderContents, under SpecTraverse *)

\* Every file and folder of a tree with the names from the top down to it
RECURSIVE NodePaths(_, _)
NodePaths(listing, ancestors) ==
    UNION {{[node |-> listing[k],
             names |-> Append(ancestors, listing[k].name)]}
           \cup NodePaths(listing[k].children,
                          Append(ancestors, listing[k].name)) :
           k \in 1..Len(listing)}

\* The names joined with "/"
RECURSIVE Joined(_)
Joined(names) ==
    IF Len(names) = 1 THEN names[1]
    ELSE names[1] \o <<"/">> \o Joined(Tail(names))

\* The folders of the tree in the order of their ids, which is the order in
\* which a depth-first walk meets them
FolderIdsOf(tree) ==
    {np.node.id : np \in {q \in NodePaths(tree, <<>>) :
                              q.node.mimeType = FolderMimeType}}

\* C20: on a finite tree whose listings all succeed getFolderContents returns
\* after one files.list request per folder, made depth-first (the traversed
\* folder first, then every subfolder when the walk meets it), with exactly
\* one record for every file and folder below the traversed folder, each
\* carrying the listed fields and fullPath = the names of its ancestors below
\* the traversed folder and its own name, joined with "/".
C20_TraversalCoversTree ==
    (travPc # "call" /\ travFailAt = 0) =>
        /\ travPc = "returned"
        /\ Len(travCalls) = Cardinality(FolderIdsOf(travTree)) + 1
        /\ travCalls[1] = "root"
        /\ \A i \in 2..Len(travCalls) :
               \E id \in FolderIdsOf(travTree) :
                   /\ travCalls[i] = FolderRef(id)
                   /\ Cardinality({j \in FolderIdsOf(travTree) : j < id}) = i - 2
        /\ Len(travFiles) = Cardinality(NodePaths(travTree, <<>>))
        /\ \A k \in 1..Len(travFiles) :
               \E np \in NodePaths(travTree, <<>>) :
                   /\ np.node.id = k
                   /\ travFiles[k] =
                          [id |-> k, name |-> np.node.name,
                           mimeType |-> np.node.mimeType,
                           modifiedTime |-> np.node.modifiedTime,
                           size |-> np.node.size,
                           parents |-> np.node.parents,
                           fullPath |-> Joined(np.names)]

----------------------------------------------------------------------------
(* C19: a failed listing inside a drive_update check, under Spec *)

TablesUntouched ==
    /\ trackedFolders' = trackedFolders
    /\ folderChanges' = folderChanges

\* C19: when a files.list request of the traversal fails, at the traversed
\* folder or below it, getFolderContents hands no list to the handler, the
\* check answers 500 with no changes, and no step the check took, from its
\* arrival to that answer, wrote to tracked_folders or folder_changes.
C19_ListingFailureWritesNothing ==
    /\ [](\A r \in Requests :
            (req[r].kind = "update" /\ req[r].listFailAt # 0) =>
                /\ req[r].pc = "done"
                /\ Val(req[r].response).status = 500
                /\ Val(req[r].response).changes = <<>>
                /\ req[r].currentContents = <<>>
                /\ req[r].saved = 0)
    /\ [][\A r \in Requests :
            (/\ req'[r] # req[r]
             /\ req'[r].kind = "update"
             /\ \/ req'[r].pc \in {"getFolder", "active", "list"}
                \/ req'[r].listFailAt # 0) => TablesUntouched]_vars

\* The listing of a subfolder fails while the stored snapshot is out of date
C19_Witness ==
    \E r \in Requests :
        /\ At(r, "update", "done")
        /\ req[r].listFailAt = 2
        /\ Val(Val(req[r].response).error).request = "files.list"
        /\ Val(Val(req[r].response).error).about # Folder(r)
        /\ ~IsNull(trackedFolders[Folder(r)])
        /\ Val(Val(trackedFolders[Folder(r)]).folder_contents) # <<>>
        /\ Val(Val(trackedFolders[Folder(r)]).folder_contents)
               # Val(TraverseFolder(Folder(r), drive[Folder(r)], 0).files)

----------------------------------------------------------------------------
(* C24, C25, C28, C29: the drive_update check and the tables, under Spec *)

StoredContents(f) ==
    IF IsNull(trackedFolders[f]) THEN Null
    ELSE Val(trackedFolders[f]).folder_contents

\* C24: a check that finds no stored snapshot for its folder stores the
\* snapshot it fetched as the snapshot of the folder, answers 200 with an
\* empty list of changes and writes no row to folder_changes.
C24_FirstCheckStoresBaseline ==
    /\ [][\A r \in Requests :
            (At(r, "update", "first") /\ req'[r] # req[r]) =>
                /\ StoredContents(Folder(r))' = Some(req[r].currentContents)
                /\ folderChanges' = folderChanges
                /\ req'[r].pc = "done"
                /\ Val(req'[r].response).status = 200
                /\ Val(req'[r].response).changes = <<>>]_vars
    /\ [](\A r \in Requests :
            (/\ At(r, "update", "done")
             /\ Val(req[r].response).status = 200
             /\ IsNull(req[r].previousContents)) =>
                /\ req[r].changes = <<>>
                /\ req[r].saved = 0
                /\ IsNull(req[r].trackedFolderId))

\* The first check of a folder that holds a file
C24_Witness ==
    \E r \in Requests :
        /\ At(r, "update", "done")
        /\ Val(req[r].response).status = 200
        /\ IsNull(req[r].previousContents)
        /\ req[r].currentContents # <<>>
        /\ StoredContents(Folder(r)) = Some(req[r].currentContents)
        /\ folderChanges = <<>>

\* C25: a check stores exactly the snapshot it fetched, and nothing but a
\* check (or the creation of the row) changes the stored snapshot; so a check
\* that fetches what the check before it fetched finds its own snapshot
\* stored, detects no change and adds no row to folder_changes.
C25_RepeatedSnapshotNoChanges ==
    /\ [][\A r \in Requests :
            (/\ req[r].kind = "update"
             /\ req[r].pc \in {"first", "store"}
             /\ req'[r] # req[r]) =>
                StoredContents(Folder(r))' = Some(req[r].currentContents)]_vars
    /\ [][\A f \in Folders :
            StoredContents(f)' # StoredContents(f) =>
                \E r \in Requests :
                    /\ req[r].pc \in {"first", "store", "add"}
                    /\ Folder(r) = f
                    /\ req'[r] # req[r]]_vars
    /\ [](\A r \in Requests :
            (/\ req[r].kind = "update"
             /\ req[r].pc \in {"store", "recent", "insert", "checked",
                               "modified", "done"}
             /\ req[r].previousContents = Some(req[r].currentContents)) =>
                /\ req[r].changes = <<>>
                /\ req[r].saved = 0
                /\ req[r].pc = "done" =>
                       /\ Val(req[r].response).status = 200
                       /\ Val(req[r].response).changes = <<>>)

\* The second of two checks that fetched the same file
C25_Witness ==
    \E r \in Requests :
        /\ At(r, "update", "done")
        /\ Val(req[r].response).status = 200
        /\ req[r].currentContents # <<>>
        /\ req[r].previousContents = Some(req[r].currentContents)
        /\ StoredContents(Folder(r)) = Some(req[r].currentContents)
        /\ ~IsNull(req[r].trackedFolderId)

\* C28: the row that drive_update inserts for a change keeps the payload of
\* its type: for 'modified' the details the detector computed, for 'renamed'
\* the old name and the similarity, for 'moved' the old and the new parent
\* (additional_data is the only column that could hold the last two).
C28_RecordsKeepPayload ==
    [][\A r \in Requests :
          (/\ At(r, "update", "insert")
           /\ Len(folderChanges') = Len(folderChanges) + 1) =>
              LET change == req[r].changes[req[r].idx]
                  row == folderChanges'[Len(folderChanges')]
              IN  /\ change.type = "modified" =>
                         row.modification_details =
                             Some(change.modificationDetails)
                  /\ change.type \in {"renamed", "moved"} =>
                         row.additional_data # <<>>]_vars

\* C29: a check of a folder whose row has is_active = false is answered 400
\* at the test of the flag; neither that step nor any earlier step of the
\* check writes to tracked_folders or folder_changes, and the check never
\* gets to the traversal of the remote tree.
C29_InactiveFolderRejected ==
    /\ [][\A r \in Requests :
            (/\ At(r, "update", "active")
             /\ req'[r] # req[r]
             /\ ~IsNull(trackedFolders[Folder(r)])
             /\ ~Val(trackedFolders[Folder(r)]).is_active) =>
                /\ req'[r].pc = "done"
                /\ Val(req'[r].response).status = 400
                /\ Val(req'[r].response).changes = <<>>
                /\ TablesUntouched]_vars
    /\ [][\A r \in Requests :
            (/\ req'[r] # req[r]
             /\ req'[r].kind = "update"
             /\ req'[r].pc \in {"getFolder", "active"}) =>
                TablesUntouched]_vars
    /\ [](\A r \in Requests :
            (At(r, "update", "done") /\ Val(req[r].response).status = 400) =>
                /\ req[r].currentContents = <<>>
                /\ req[r].listFailAt = 0
                /\ IsNull(req[r].previousContents)
                /\ IsNull(req[r].trackedFolderId)
                /\ req[r].saved = 0)

\* A check is rejected while the stored snapshot is out of date
C29_Witness ==
    \E r \in Requests :
        /\ At(r, "update", "done")
        /\ Val(req[r].response).status = 400
        /\ ~Val(trackedFolders[Folder(r)]).is_active
        /\ StoredContents(Folder(r))
               # Some(Val(TraverseFolder(Folder(r), drive[Folder(r)], 0).files))

----------------------------------------------------------------------------
(* C21, C26, C27, C30: the ledger and the stored snapshot under            *)
(* concurrency, database failures and removal, under SpecConc              *)

SameKey(row, folderId, changeType, itemName, parentName) ==
    /\ row.google_folder_id = folderId
    /\ row.change_type = changeType
    /\ row.item_name = itemName
    /\ row.parent_name = parentName

\* folder_changes holds a row with the key that is less than one hour old
RecentRecord(folderId, changeType, itemName, parentName) ==
    \E k \in 1..Len(folderChanges) :
        /\ SameKey(folderChanges[k], folderId, changeType, itemName, parentName)
        /\ now - folderChanges[k].created_at < OneHour

\* C21: a call of saveChange whose queries the database answers inserts
\* nothing and returns normally (the loop goes on to the next change) when
\* folder_changes holds a row with the same folder, type, item name and
\* parent name created less than one hour ago; otherwise it goes on to its
\* INSERT, which adds exactly one row, with that key, at the end.
C21_DuplicateDroppedElseInserted ==
    [][\A r \in ConcRequests :
          /\ (/\ At(r, "update", "recent")
              /\ req'[r] # req[r]
              /\ req'[r].pc # "done") =>
                 LET change == req[r].changes[req[r].idx]
                 IN  /\ folderChanges' = folderChanges
                     /\ req'[r].saved = req[r].saved
                     /\ IF RecentRecord(Folder(r), change.type,
                                        change.item.name,
                                        Val(req'[r].parentName))
                        THEN /\ req'[r].idx = req[r].idx + 1
                             /\ req'[r].pc \in {"recent", "checked"}
                        ELSE /\ req'[r].idx = req[r].idx
                             /\ req'[r].pc = "insert"
          /\ (/\ At(r, "update", "insert")
              /\ req'[r] # req[r]
              /\ req'[r].pc # "done") =>
                 LET change == req[r].changes[req[r].idx]
                 IN  /\ Len(folderChanges') = Len(folderChanges) + 1
                     /\ SubSeq(folderChanges', 1, Len(folderChanges))
                            = folderChanges
                     /\ SameKey(folderChanges'[Len(folderChanges')],
                                Folder(r), change.type, change.item.name,
                                Val(req[r].parentName))
                     /\ folderChanges'[Len(folderChanges')].created_at = now
                     /\ req'[r].saved = req[r].saved + 1
                     /\ req'[r].idx = req[r].idx + 1]_vars

\* One check has inserted a row, another has dropped the same change as a
\* duplicate and gone on
C21_Witness ==
    \E r, q \in ConcRequests :
        /\ req[q].kind = "update" /\ req[q].saved = 1
        /\ req[r].kind = "update"
        /\ req[r].pc \in {"checked", "modified"}
        /\ Len(req[r].changes) = 1
        /\ req[r].idx = 2
        /\ req[r].saved = 0
        /\ RecentRecord(Folder(r), req[r].changes[1].type,
                        req[r].changes[1].item.name, Val(req[r].parentName))

\* C26: a check that has overwritten the stored snapshot with the one it
\* fetched ends only after every change it detected was handed to saveChange
\* and saveChange returned (inserted or dropped as a duplicate).
C26_SnapshotAdvanceImpliesChangesSaved ==
    \A r \in ConcRequests :
        (/\ At(r, "update", "done")
         /\ ~IsNull(req[r].trackedFolderId)) =>
            req[r].idx = Len(req[r].changes) + 1

\* C27: folder_changes never holds two rows with the same folder, type, item
\* name and parent name created less than one hour apart.
C27_NoDuplicateWithinWindow ==
    \A j, k \in 1..Len(folderChanges) :
        (/\ j < k
         /\ SameKey(folderChanges[k], folderChanges[j].google_folder_id,
                    folderChanges[j].change_type, folderChanges[j].item_name,
                    folderChanges[j].parent_name)) =>
            folderChanges[k].created_at - folderChanges[j].created_at >= OneHour

FolderRows(f) ==
    SelectSeq(folderChanges, LAMBDA row : row.google_folder_id = f)

\* C30: a check that read the stored snapshot of its folder and then finds
\* the row gone was in flight when a removal of the folder completed (only
\* the DELETE of removeTrackedFolder deletes rows); no step of such a check
\* brings back a row of tracked_folders or of folder_changes for the folder.
C30_RemovalSurvivesChecksInFlight ==
    [][\A r \in ConcRequests :
          (/\ req[r].kind = "update"
           /\ ~IsNull(req[r].previousContents)
           /\ IsNull(trackedFolders[Folder(r)])
           /\ FolderRows(Folder(r)) = <<>>
           /\ req'[r] # req[r]) =>
              /\ IsNull(trackedFolders'[Folder(r)])
              /\ FolderRows(Folder(r))' = <<>>]_vars

----------------------------------------------------------------------------
(* C23: checks of two different folders, under SpecIso *)

\* The keys for which hasRecentChange answers true when asked about folder f
RecentKeys(f) ==
    {key \in {<<folderChanges[k].change_type, folderChanges[k].item_name,
                folderChanges[k].parent_name>> : k \in 1..Len(folderChanges)} :
        hasRecentChange(folderChanges, now, f, key[1], key[2], key[3])}

\* C23: no step of a check of another folder changes what a check of folder
\* f works with and produces: the row of f in tracked_folders (its stored
\* snapshot), the rows of f in folder_changes, the answers hasRecentChange
\* gives about f, and the locals of the check of f (its fetched and previous
\* snapshots, its detected changes, its answer).
C23_ChecksOfOtherFoldersDoNotInterfere ==
    [][\A r, q \in IsoRequests :
          (/\ req'[q] # req[q]
           /\ Val(req'[q].folder) # IsoFolder(r)) =>
              /\ trackedFolders'[IsoFolder(r)] = trackedFolders[IsoFolder(r)]
              /\ FolderRows(IsoFolder(r))' = FolderRows(IsoFolder(r))
              /\ RecentKeys(IsoFolder(r))' = RecentKeys(IsoFolder(r))
              /\ req'[r] = req[r]]_vars

\* One check has recorded a change and the check of the other folder is about
\* to insert a row with the same type, item name and parent name
C23_Witness ==
    \E r, q \in IsoRequests :
        /\ r # q
        /\ At(q, "update", "insert")
        /\ req[r].kind = "update"
        /\ req[r].saved = 1
        /\ req[r].pc \in {"checked", "modified"}
        /\ Len(FolderRows(IsoFolder(r))) = 1
        /\ SameKey(FolderRows(IsoFolder(r))[1], IsoFolder(r),
                   req[q].changes[1].type, req[q].changes[1].item.name,
                   Val(req[q].parentName))

----------------------------------------------------------------------------
(* C22: the checks the pages have in flight, under SpecUi *)

InFlight(r) == req[r].kind = "update" /\ req[r].pc # "done"

\* C22: the pages never have two checks of the same folder in flight at
\* once, so no check of a folder runs between another check's read of the
\* stored snapshot and its write of the new one.
C22_OneCheckPerFolderInFlight ==
    \A r, q \in UiRequests :
        (r # q /\ InFlight(r) /\ InFlight(q)) => Folder(r) # Folder(q)

====
